---- MODULE Spec2Model ----
(***************************************************************************)
(* Model of the testnow test-call supervisor (ts/01_test-call.ts):         *)
(* registration of test calls, the sequential execution engine with its    *)
(* timeout race, and the statistics computed over the execution records.   *)
(*                                                                         *)
(* The Node.js event loop is modelled by two queues (process.nextTick      *)
(* callbacks, promise jobs) and by timed events (the engine's timers and   *)
(* the asynchronous settlement of the tested functions), each carrying the *)
(* time left before it is due; time passes by jumping to the next due one. *)
(*                                                                         *)
(* The folder walker (03-walk-folder) is modelled beside it: a Readable    *)
(* stream over a file tree, with its stack of pathnames and its pending    *)
(* filesystem probe.                                                       *)
(*                                                                         *)
(* executeTestCallsOfFolder is modelled on top of both: the listeners it   *)
(* puts on the walker, the chain of promises importing and running each    *)
(* delivered test file with the supervisor, and the promise it returns.    *)
(***************************************************************************)
EXTENDS Integers, Sequences, FiniteSets, TLC

\* ---------------------------------------------------------------- bounds
MaxCalls == 2        \* execution records ever created (equals / throws calls)
MaxRuns == 2         \* run() invocations (accepted or rejected)
MaxDepth == 2        \* depth of the deepest entry below the root of a walked folder

\* ------------------------------------------------------ program constants
INITIALIZED_EXECUTION == "INITIALIZED_EXECUTION"
CANCELLED_EXECUTION == "CANCELLED_EXECUTION"
SKIPPED_EXECUTION == "SKIPPED_EXECUTION"
DONE_EXECUTION == "DONE_EXECUTION"
DEFAULT_TIMEOUT_DURATION == 200

\* ------------------------------------------------------------ data domain
\* timeoutDuration: Nullable<number>: null is written NullDuration
NullDuration == -1
\* timeouts given to $.stopPast
StopPastDurations == {10}
\* delays after which an asynchronous tested function settles
Delays == {50}
\* values returned by synchronous tested functions; "null" is null
Values == {"v2"}
\* values given to equals
ExpectedValues == {"v1"}

\* Errors, constructors and other thrown things share one record shape:
\*   type "none"  : null (no error)
\*   type "error" : an Error instance of class cls with message msg
\*   type "ctor"  : the constructor function cls
\*   type "nullish" : the thrown value null / undefined
\*   type "string": a thrown primitive string msg
\*   type "object": a thrown plain object {name: cls, message: msg}
Thing(type, cls, msg) == [type |-> type, cls |-> cls, msg |-> msg]
NoError == Thing("none", "", "")
NullishReason == Thing("nullish", "", "")
\* what a tested function may throw synchronously
ThrownReasons == {Thing("error", "TypeError", "m1")}
\* what the promise of a tested function may resolve with, or reject with
ResolvedValues == {"v1"}
RejectionReasons == {NullishReason}
\* expectations given to throws
ExpectedErrors == {Thing("ctor", "TypeError", "")}

\* superclass chain of the error classes in the domain (instanceof)
IsSubclass(cls, ancestor) ==
  \/ cls = ancestor
  \/ cls \in {"TypeError", "RangeError"} /\ ancestor = "Error"

\* reason instanceof Error
IsErrorInstance(reason) == reason.type = "error"

\* reason instanceof ctor for a constructor ctor
InstanceOf(reason, ctor) == reason.type = "error" /\ IsSubclass(reason.cls, ctor.cls)

\* isDeepStrictEqual on two Error instances: same prototype, same message
DeepEqualErrors(a, b) == a.type = "error" /\ b.type = "error" /\ a.cls = b.cls /\ a.msg = b.msg

\* The values are objects, named by reference: "w1" is another object built
\* like "v1", every other one is built like no other.
Content(value) == IF value = "w1" THEN "v1" ELSE value

\* isDeepStrictEqual on two values of the domain: the same structure
DeepEqualValues(a, b) == Content(a) = Content(b)

\* TestCallResult
makeNormalTestCallResult(value) == [present |-> TRUE, error |-> NoError, value |-> value]
makeErrorTestCallResult(error) == [present |-> TRUE, error |-> error, value |-> "null"]
\* obtained: null
NoResult == [present |-> FALSE, error |-> NoError, value |-> "null"]

initializeTestCallExecution(testCallResult, testCall) ==
  [testCall |-> testCall,
   testExecutionStatus |-> INITIALIZED_EXECUTION,
   passed |-> FALSE,
   obtained |-> NoResult,
   expected |-> testCallResult,
   error |-> NoError]


\* ts/00_utilities.ts errorFromReason: what a synchronous throw is turned into
\* pprint of what is not an Error: JSON.stringify, which gives undefined (an
\* empty message) for a function
pprint(reason) ==
  CASE reason.type = "string" -> "\"" \o reason.msg \o "\""
    [] reason.type = "nullish" -> "null"
    [] OTHER -> ""

errorFromReason(reason) ==
  CASE IsErrorInstance(reason) -> reason
    [] reason.type = "object" ->
         Thing("error", "Error", "[fromReason] " \o reason.cls \o ": " \o reason.msg)
    [] OTHER -> Thing("error", "Error", pprint(reason))

\* the Error built by the timer callback
TimeoutError == Thing("error", "Error", "Execution timed out")
\* the Error thrown by asErrorOrConstructor
NoConstructorError == Thing("error", "Error", "Cannot retrieve the constructor")
\* the Errors of the misuse of reset() and run()
ResetWhileRunningError == Thing("error", "Error", "Cannot call reset() while running")
AlreadyRunningError == Thing("error", "Error", "run() has already been called")

\* getConstructor: null when the reason has no constructor
getConstructor(reason) ==
  CASE reason.type = "nullish" -> NoError
    [] reason.type = "string" -> Thing("ctor", "String", "")
    [] reason.type = "ctor" -> Thing("ctor", "Function", "")
    [] reason.type = "object" -> Thing("ctor", "Object", "")
    [] OTHER -> Thing("ctor", reason.cls, "")

\* asErrorOrConstructor: [threw |-> TRUE] when it throws
asErrorOrConstructor(reason) ==
  IF IsErrorInstance(reason)
    THEN [threw |-> FALSE, result |-> reason]
    ELSE IF getConstructor(reason) # NoError
      THEN [threw |-> FALSE, result |-> getConstructor(reason)]
      ELSE [threw |-> TRUE, result |-> NoConstructorError]

\* ------------------------------------------------------------- the engine
\* the settlement of a promise
Fulfilled(value) == [settled |-> "fulfilled", value |-> value, reason |-> NoError]
Rejected(reason) == [settled |-> "rejected", value |-> "null", reason |-> reason]
NoOutcome == [settled |-> "pending", value |-> "null", reason |-> NoError]

\* no tested function invoked yet
NoBehaviour == [mode |-> "none", outcome |-> NoOutcome, delay |-> 0]

\* The domain of the specification of one execution, where the comparisons
\* are told apart: values built alike or not, errors of several classes and
\* messages, and things thrown that are no Error.
ComparedValues == {"v1", "w1", "v2", "null"}
ComparedExpectedValues == {"v1", "null"}
ComparedReasons ==
  {Thing("error", "TypeError", "m1"), Thing("error", "TypeError", "m2"),
   Thing("error", "Error", "m1"), Thing("error", "RangeError", "m1"),
   Thing("string", "", "boom"), Thing("object", "Fault", "m1"), NullishReason}
ComparedExpectedErrors ==
  {Thing("ctor", "TypeError", ""), Thing("ctor", "Error", ""),
   Thing("error", "TypeError", "m1"), Thing("error", "Error", "\"boom\"")}
ComparedExpectations ==
  {makeNormalTestCallResult(value) : value \in ComparedExpectedValues}
  \cup {makeErrorTestCallResult(error) : error \in ComparedExpectedErrors}
ComparedOutcomes ==
  {Fulfilled(v) : v \in ComparedValues} \cup {Rejected(r) : r \in ComparedReasons}
ComparedBehaviours ==
  [mode : {"sync"}, outcome : ComparedOutcomes, delay : {0}]
  \cup [mode : {"async"}, outcome : ComparedOutcomes, delay : Delays]

\* ------------------------------------------------------------ statistics
newTestExecutionStatistics == [ok |-> 0, ko |-> 0, skipped |-> 0, total |-> 0]

\* addTestExecution counting as ko the failed Done records only
addTestExecution_FailuresOnly(testExecution, stats) ==
  LET counted ==
        IF testExecution.testExecutionStatus = DONE_EXECUTION /\ testExecution.passed
          THEN [stats EXCEPT !.ok = @ + 1]
          ELSE IF testExecution.testExecutionStatus = SKIPPED_EXECUTION
            THEN [stats EXCEPT !.skipped = @ + 1]
            ELSE IF testExecution.testExecutionStatus = DONE_EXECUTION
              THEN [stats EXCEPT !.ko = @ + 1]
              ELSE stats
  IN [counted EXCEPT !.total = @ + 1]

addTestExecution(testExecution, stats) ==
  LET counted ==
        IF testExecution.testExecutionStatus = DONE_EXECUTION /\ testExecution.passed
          THEN [stats EXCEPT !.ok = @ + 1]
          ELSE IF testExecution.testExecutionStatus = SKIPPED_EXECUTION
            THEN [stats EXCEPT !.skipped = @ + 1]
            ELSE [stats EXCEPT !.ko = @ + 1]
  IN [counted EXCEPT !.total = @ + 1]

RECURSIVE StatisticsFrom(_, _, _)
\* the for-of loop of makeTestExecutionStatistics from position i
StatisticsFrom(executions, i, stats) ==
  IF i > Len(executions)
    THEN stats
    ELSE StatisticsFrom(executions, i + 1, addTestExecution(executions[i], stats))

makeTestExecutionStatistics(executions) ==
  StatisticsFrom(executions, 1, newTestExecutionStatistics)

\* ------------------------------------------------------------ file trees
\* A pathname is the sequence of the names below the root folder: <<>> is
\* the root. The names of the entries, in ascending order:
NAMES == <<"a", "b">>
Names == {NAMES[i] : i \in 1..Len(NAMES)}
NameRank(name) == CHOOSE i \in 1..Len(NAMES) : NAMES[i] = name

Pathnames == UNION {[1..n -> Names] : n \in 0..MaxDepth}
Parent(pathname) == SubSeq(pathname, 1, Len(pathname) - 1)

\* a file tree gives each pathname what stat finds there: nothing ("none"),
\* a file or a directory; an entry is in a directory
FileTrees ==
  {fs \in [Pathnames -> {"none", "file", "dir"}] :
     \A pathname \in Pathnames :
       (Len(pathname) > 0 /\ fs[pathname] # "none") => fs[Parent(pathname)] = "dir"}

\* the Dirents of a directory
Dirent(name, kind) == [name |-> name, kind |-> kind]
Dirents(fs, pathname) ==
  {Dirent(name, fs[Append(pathname, name)]) :
     name \in {n \in Names : Len(pathname) < MaxDepth /\ fs[Append(pathname, n)] # "none"}}

\* the arrays holding each element of a set once
ArraysOf(set) ==
  {array \in [1..Cardinality(set) -> set] : \A x \in set : \E i \in DOMAIN array : array[i] = x}

\* ts/00_utilities.ts compareStringsAscending, on names (never empty)
compareStringsAscending(a, b) ==
  IF NameRank(a) < NameRank(b) THEN -1 ELSE IF a = b THEN 0 ELSE 1

\* the comparator without the -1 factors: names ascending in the array
sortFilesFirstThenAlphabetically_Ascending(a, b) ==
  IF a.kind = "dir" /\ b.kind = "dir"
    THEN compareStringsAscending(a.name, b.name)
    ELSE IF a.kind = "dir"
      THEN -1
      ELSE IF b.kind = "dir"
        THEN 1
        ELSE compareStringsAscending(a.name, b.name)

sortFilesFirstThenAlphabetically(a, b) ==
  IF a.kind = "dir" /\ b.kind = "dir"
    THEN -1 * compareStringsAscending(a.name, b.name)
    ELSE IF a.kind = "dir"
      THEN -1
      ELSE IF b.kind = "dir"
        THEN 1
        ELSE -1 * compareStringsAscending(a.name, b.name)

\* Array.prototype.sort with the default comparator, which orders the
\* Dirents of a directory totally (their names differ)
SortedDefault(fsDirents) ==
  CHOOSE array \in ArraysOf(fsDirents) :
    \A i, j \in DOMAIN array :
      i < j => sortFilesFirstThenAlphabetically(array[i], array[j]) < 0

\* FolderWalkerOptions: arraySortFunction is the default one ("default") or
\* null, arrayFilterFunction is null or a function keeping the directories,
\* depthLimit is a number or null, itemFilter is null or a function of the
\* stats of the item
NoLimit == -1        \* depthLimit: null (a negative number does the same)
DepthLimits == {NoLimit} \cup (0..(MaxDepth - 1))
FolderWalkerOptions ==
  [arraySortFunction : {"default", "null"},
   arrayFilterFunction : {"null", "isDirectory"},
   depthLimit : DepthLimits,
   itemFilter : {"null", "isFile", "isDirectory"}]

\* fsDirents.filter(arrayFilterFunction), or fsDirents without a filter
ArrayFilter(options, fsDirents) ==
  IF options.arrayFilterFunction = "isDirectory"
    THEN {fsDirent \in fsDirents : fsDirent.kind = "dir"}
    ELSE fsDirents

\* pathname.split(sep).length of a folder pathname, the one of the root
\* being RootSplitLength (3 for "/root/")
RootSplitLength == 3
\* the same for a pathname counted without the separator that ends it
SplitLength_NoEndingSeparator(pathname) == RootSplitLength + Len(pathname) - 1
SplitLength(pathname) == RootSplitLength + Len(pathname)

\* the items pushed to the consumer
asAbsoluteFile(pathname) == [folder |-> FALSE, pathname |-> pathname]
asAbsoluteFolder(pathname) == [folder |-> TRUE, pathname |-> pathname]

\* no walker built
NoFolderWalker == [constructed |-> "no"]

\* executeTestCallsOfFolder was not called
NoOrchestrator == [called |-> FALSE]

\* ------------------------------------------------------------------ state
\* Objects live in the state as long as the program can still reach them:
\* the closure of an executeTestCall invocation is dropped once its timer is
\* off, its function has settled and no promise job refers to it.
VARIABLES
  running,             \* the supervisor's running flag
  testCallExecutions,  \* the array the supervisor's variable references: record ids
  recs,                \* the execution records ever created, by id
  specifiers,          \* the TestCalls of the specifiers created so far
  runs,                \* the closure of every run() invocation
  execs,               \* the live closures of executeTestCall
  tickQueue,           \* pending process.nextTick(executeNextTestCall), by run
  microtasks,          \* pending promise jobs
  phase,               \* which queue the event loop is draining
  thrown,              \* the error thrown by the latest supervisor call, or NoError
  created,             \* the TestCalls in the order their specifiers were first
                       \* created, where a specification follows that order
  behaved,             \* what the latest invocation of a tested function did,
                       \* where a specification follows it
  folderWalker,        \* the FolderWalker, its stream and the file tree it walks
  orchestrator         \* the closure of executeTestCallsOfFolder, where a
                       \* specification follows it

vars == <<running, testCallExecutions, recs, specifiers, runs, execs, tickQueue,
          microtasks, phase, thrown, created, behaved, folderWalker, orchestrator>>

\* the state of the supervisor and of the event loop
engineVars == <<running, testCallExecutions, recs, specifiers, runs, execs, tickQueue,
                microtasks, phase, thrown>>

\* what only some of the specifications follow: the others leave it as it is
auxVars == <<created, behaved, folderWalker, orchestrator>>

\* A reference to an array: the array the supervisor's variable references
\* now, or an array reset() has replaced (its content can no longer change)
CurrentArray == [detached |-> FALSE, content |-> <<>>]
Deref(ref) == IF ref.detached THEN ref.content ELSE testCallExecutions
Detach(ref) == IF ref.detached THEN ref ELSE [detached |-> TRUE, content |-> testCallExecutions]

\* the records of a sequence of record ids
Records(ids) == [i \in 1..Len(ids) |-> recs[ids[i]]]

Init ==
  /\ running = FALSE
  /\ testCallExecutions = <<>>
  /\ recs = <<>>
  /\ specifiers = {}
  /\ runs = <<>>
  /\ execs = {}
  /\ tickQueue = <<>>
  /\ microtasks = <<>>
  /\ phase = "tick"
  /\ thrown = NoError
  /\ created = <<>>
  /\ behaved = NoBehaviour
  /\ folderWalker = NoFolderWalker
  /\ orchestrator = NoOrchestrator

\* ----------------------------------------------------------- registration
\* makeTestCallSpecifier registering a record at once, with nothing expected
makeTestCallSpecifier_Registers(timeoutDuration) ==
  /\ Len(recs) < MaxCalls
  /\ specifiers' = specifiers \cup {[timeoutDuration |-> timeoutDuration]}
  /\ recs' = Append(recs, initializeTestCallExecution(NoResult,
                                                       [timeoutDuration |-> timeoutDuration]))
  /\ testCallExecutions' = Append(testCallExecutions, Len(recs) + 1)
  /\ thrown' = NoError
  /\ UNCHANGED <<running, runs, execs, tickQueue, microtasks, phase>>

\* makeTestCallSpecifier: builds the TestCall, registers nothing. The tested
\* function and its arguments are not part of the TestCall here: what a call
\* of the function does is chosen when the engine invokes it.
makeTestCallSpecifier(timeoutDuration) ==
  /\ specifiers' = specifiers \cup {[timeoutDuration |-> timeoutDuration]}
  /\ thrown' = NoError
  /\ UNCHANGED <<running, testCallExecutions, recs, runs, execs, tickQueue, microtasks, phase>>

\* $(fn, ...values)
call == makeTestCallSpecifier(NullDuration) /\ UNCHANGED auxVars

\* $.stopPast(timeout, fn, ...values)
stopPast ==
  /\ \E timeout \in StopPastDurations : makeTestCallSpecifier(timeout)
  /\ UNCHANGED auxVars

\* equals / throws invoking the tested function at once: the record is
\* pushed with a call of the function in flight
PushExecution_Executes(s, testCallResult) ==
  /\ Len(recs) < MaxCalls
  /\ recs' = Append(recs, initializeTestCallExecution(testCallResult, s))
  /\ testCallExecutions' = Append(testCallExecutions, Len(recs) + 1)
  /\ thrown' = NoError
  /\ execs' = execs \cup
       {[run |-> 0, rec |-> Len(recs) + 1, wrapUpDone |-> FALSE, hasTimedOut |-> FALSE,
         timeoutDuration |-> 0, timer |-> "cleared", timerLeft |-> 0, race |-> "pending",
         fn |-> "never", outcome |-> [settled |-> "pending", value |-> "null", reason |-> NoError],
         fnLeft |-> 0, nextTicks |-> 0, cancels |-> 0]}
  /\ UNCHANGED <<running, specifiers, runs, tickQueue, microtasks, phase>>

\* equals / throws placing the record by the creation order of its specifier:
\* before the records of the TestCalls created after its own
PushExecution_ByCreation(s, testCallResult) ==
  LET createdBefore(a, b) == \E i, j \in 1..Len(created) :
                               i < j /\ created[i] = a /\ created[j] = b
      later(id) == createdBefore(s, recs[id].testCall)
      notLater(id) == ~later(id)
  IN /\ Len(recs) < MaxCalls
     /\ recs' = Append(recs, initializeTestCallExecution(testCallResult, s))
     /\ testCallExecutions' = SelectSeq(testCallExecutions, notLater)
                                 \o <<Len(recs) + 1>>
                                 \o SelectSeq(testCallExecutions, later)
     /\ thrown' = NoError
     /\ UNCHANGED <<running, specifiers, runs, execs, tickQueue, microtasks, phase>>

\* testCallExecutions.push(initializeTestCallExecution(result, testCall))
PushExecution(s, testCallResult) ==
  /\ Len(recs) < MaxCalls
  /\ recs' = Append(recs, initializeTestCallExecution(testCallResult, s))
  /\ testCallExecutions' = Append(testCallExecutions, Len(recs) + 1)
  /\ thrown' = NoError
  /\ UNCHANGED <<running, specifiers, runs, execs, tickQueue, microtasks, phase>>

\* specifier.equals(value)
equals ==
  /\ \E s \in specifiers, value \in ExpectedValues :
       PushExecution(s, makeNormalTestCallResult(value))
  /\ UNCHANGED auxVars

\* specifier.throws(error)
throws ==
  /\ \E s \in specifiers, error \in ExpectedErrors :
       PushExecution(s, makeErrorTestCallResult(error))
  /\ UNCHANGED auxVars

\* ------------------------------------------------------------------ reset
\* reset() without the check of the running flag
ResetAllowed_Always == TRUE

\* whether reset() lets the call through
ResetAllowed == ~running

\* reset() leaving the pending list as it is
resetCalled_KeepsList ==
  /\ thrown' = IF ResetAllowed THEN NoError ELSE ResetWhileRunningError
  /\ UNCHANGED <<running, testCallExecutions, recs, specifiers, runs, execs,
                 tickQueue, microtasks, phase>>

\* testCallExecutions = []: the references held by the runs keep the old array
resetCalled ==
  /\ IF ResetAllowed
       THEN /\ testCallExecutions' = <<>>
            /\ runs' = [r \in 1..Len(runs) |->
                         IF runs[r].promise = "rejected"
                           THEN runs[r]    \* a rejected run() holds no array
                           ELSE [runs[r] EXCEPT !.array = Detach(@), !.result = Detach(@)]]
            /\ thrown' = NoError
            /\ UNCHANGED <<running, recs, specifiers, execs, tickQueue, microtasks, phase>>
       ELSE /\ thrown' = ResetWhileRunningError
            /\ UNCHANGED <<running, testCallExecutions, recs, specifiers, runs, execs,
                           tickQueue, microtasks, phase>>

\* reset()
reset ==
  /\ resetCalled
  /\ UNCHANGED auxVars

\* what one invocation of a tested function does: it returns a value or
\* throws (mode "sync"), returns a promise settling after a delay (mode
\* "async"), or returns a promise that never settles (mode "never")
Behaviours ==
  [mode : {"sync"}, outcome : {Fulfilled(v) : v \in Values} \cup {Rejected(r) : r \in ThrownReasons},
   delay : {0}]
  \cup
  [mode : {"async"}, outcome : {Fulfilled(v) : v \in ResolvedValues} \cup {Rejected(r) : r \in RejectionReasons},
   delay : Delays]
  \cup
  [mode : {"never"}, outcome : {NoOutcome}, delay : {0}]

\* a promise job; x names the closure it belongs to
Job(kind, x, outcome) == [kind |-> kind, x |-> x, outcome |-> outcome]

\* the closure of executeTestCall for record id in run r
Exec(x) == CHOOSE e \in execs : e.run = x[1] /\ e.rec = x[2]

\* a closure nothing can reach any more
Unreachable(e, jobs) ==
  /\ e.timer # "armed"
  /\ e.fn # "pending"
  /\ \A i \in 1..Len(jobs) : jobs[i].x # <<e.run, e.rec>>

\* the closures after e has become f, the promise jobs being jobs
Replaced(e, f, jobs) ==
  (execs \ {e}) \cup (IF Unreachable(f, jobs) THEN {} ELSE {f})

\* run() queueing the invocation it should reject: its promise stays pending
NewRun_Queued(skipTimeboxedTests, promise) ==
  [skipTimeboxedTests |-> skipTimeboxedTests, array |-> CurrentArray, offset |-> 0,
   promise |-> "pending", result |-> CurrentArray, resolved |-> <<>>, resolveCalls |-> 0,
   invoked |-> <<>>, skipped |-> <<>>]

\* the closure of a run() invocation
NewRun(skipTimeboxedTests, promise) ==
  [skipTimeboxedTests |-> skipTimeboxedTests,
   array |-> CurrentArray,   \* the array given to executeTestCalls
   offset |-> 0,
   promise |-> promise,
   result |-> CurrentArray,  \* the array the promise resolved with
   resolved |-> <<>>,        \* its content at that moment
   resolveCalls |-> 0,       \* how often cancelExecution was called
   invoked |-> <<>>,         \* the records whose function the run invoked
   skipped |-> <<>>]         \* the records the run marked Skipped

\* cancelExecution of run r (the closure built by run): running = false and
\* resolve(testCallExecutions); resolving an already resolved promise does nothing
cancelExecution(r) ==
  [runs EXCEPT ![r] =
    IF @.promise = "pending"
      THEN [@ EXCEPT !.resolveCalls = @ + 1,
                     !.promise = "resolved",
                     !.result = CurrentArray,
                     !.resolved = testCallExecutions]
      ELSE [@ EXCEPT !.resolveCalls = @ + 1]]

\* run() without the check of the running flag
RunAllowed_Always == TRUE

\* whether run() lets the call through
RunAllowed == ~running

\* run() starting the execution without raising the running flag
runCalled_FlagLeftDown(skipTimeboxedTests) ==
  /\ Len(runs) < MaxRuns
  /\ thrown' = NoError
  /\ IF RunAllowed
       THEN /\ runs' = Append(runs, NewRun(skipTimeboxedTests, "pending"))
            /\ tickQueue' = Append(tickQueue, Len(runs) + 1)
            /\ UNCHANGED running
       ELSE /\ runs' = Append(runs, NewRun(FALSE, "rejected"))
            /\ UNCHANGED <<running, tickQueue>>
  /\ UNCHANGED <<testCallExecutions, recs, specifiers, execs, microtasks, phase>>

\* run(testExecutionOptions)
runCalled(skipTimeboxedTests) ==
  /\ Len(runs) < MaxRuns
  /\ thrown' = NoError
  /\ IF RunAllowed
       THEN /\ running' = TRUE
            /\ runs' = Append(runs, NewRun(skipTimeboxedTests, "pending"))
            \* executeTestCalls: process.nextTick(executeNextTestCall)
            /\ tickQueue' = Append(tickQueue, Len(runs) + 1)
       ELSE \* reject(...): the options are not read
            /\ runs' = Append(runs, NewRun(FALSE, "rejected"))
            /\ UNCHANGED <<running, tickQueue>>
  /\ UNCHANGED <<testCallExecutions, recs, specifiers, execs, microtasks, phase>>

\* run(options)
run ==
  /\ \E skipTimeboxedTests \in BOOLEAN : runCalled(skipTimeboxedTests)
  /\ UNCHANGED auxVars

\* executeTestCall without the timer
NewExecution_NoTimer(r, id, b) ==
  [run |-> r, rec |-> id, wrapUpDone |-> FALSE, hasTimedOut |-> FALSE,
   timeoutDuration |-> 0, timer |-> "cleared", timerLeft |-> 0, race |-> "pending",
   fn |-> CASE b.mode = "sync" -> "settled"
            [] b.mode = "async" -> "pending"
            [] OTHER -> "never",
   outcome |-> IF b.mode = "async" THEN b.outcome ELSE NoOutcome,
   fnLeft |-> b.delay, nextTicks |-> 0, cancels |-> 0]

\* executeTestCall arming every timer for the default duration
NewExecution_DefaultDuration(r, id, b) ==
  [NewExecution_NoTimer(r, id, b) EXCEPT !.timeoutDuration = DEFAULT_TIMEOUT_DURATION,
                                         !.timer = "armed",
                                         !.timerLeft = DEFAULT_TIMEOUT_DURATION]

\* the closure of executeTestCall for record id in run r, the tested function
\* behaving as b
NewExecution(r, id, b) ==
  LET testCall == recs[id].testCall
      timeoutDuration == IF testCall.timeoutDuration = NullDuration
                           THEN DEFAULT_TIMEOUT_DURATION
                           ELSE testCall.timeoutDuration
  IN [run |-> r, rec |-> id,
      wrapUpDone |-> FALSE,
      hasTimedOut |-> FALSE,
      timeoutDuration |-> timeoutDuration,
      timer |-> "armed",
      timerLeft |-> timeoutDuration,      \* time left before the timer fires
      race |-> "pending",
      fn |-> CASE b.mode = "sync" -> "settled"
               [] b.mode = "async" -> "pending"
               [] OTHER -> "never",
      outcome |-> IF b.mode = "async" THEN b.outcome ELSE NoOutcome,
      fnLeft |-> b.delay,                 \* time left before the function settles
      nextTicks |-> 0,                    \* process.nextTick(executeNextTestCall) calls
      cancels |-> 0]                      \* cancelExecution() calls

\* the promise job queued by executeTestCall itself: a synchronous return
\* resolves promisedTestResult, a synchronous throw rejects it with
\* errorFromReason(reason)
SyncJobs(x, b) ==
  IF b.mode = "sync"
    THEN IF b.outcome.settled = "fulfilled"
           THEN <<Job("raceInput", x, b.outcome)>>
           ELSE <<Job("raceInput", x, Rejected(errorFromReason(b.outcome.reason)))>>
    ELSE <<>>

\* executeNextTestCall skipping every record that carries a timeout, whatever
\* the options of the run
Skips_EveryTimeboxed(r, id) ==
  recs[id].testCall.timeoutDuration # NullDuration

\* whether executeNextTestCall skips the record instead of executing it
Skips(r, id) ==
  ~(recs[id].testCall.timeoutDuration = NullDuration \/ ~runs[r].skipTimeboxedTests)

\* executeNextTestCall of run r, run from the nextTick queue; b is what the
\* tested function does if this step invokes one, NoBehaviour if it invokes
\* none
executeNextTestCallWith(b) ==
  /\ tickQueue # <<>>
  /\ microtasks = <<>> \/ phase = "tick"
  /\ LET r == Head(tickQueue)
         array == Deref(runs[r].array)
         offset == runs[r].offset
     IN IF offset < Len(array)
          THEN LET id == array[offset + 1]
               IN IF ~Skips(r, id)
                    THEN /\ b # NoBehaviour
                         /\ execs' = execs \cup {NewExecution(r, id, b)}
                         /\ microtasks' = microtasks \o SyncJobs(<<r, id>>, b)
                         /\ tickQueue' = Tail(tickQueue)
                         /\ runs' = [runs EXCEPT ![r].offset = @ + 1,
                                                 ![r].invoked = Append(@, id)]
                         /\ UNCHANGED <<running, recs>>
                    ELSE /\ b = NoBehaviour
                         /\ recs' = [recs EXCEPT ![id].testExecutionStatus = SKIPPED_EXECUTION]
                         /\ tickQueue' = Append(Tail(tickQueue), r)
                         /\ runs' = [runs EXCEPT ![r].offset = @ + 1,
                                                 ![r].skipped = Append(@, id)]
                         /\ UNCHANGED <<running, execs, microtasks>>
          ELSE \* finalCancelExecution
               /\ b = NoBehaviour
               /\ running' = FALSE
               /\ runs' = cancelExecution(r)
               /\ microtasks' = microtasks
               /\ tickQueue' = Tail(tickQueue)
               /\ UNCHANGED <<recs, execs>>
  /\ phase' = "tick"
  /\ UNCHANGED <<testCallExecutions, specifiers, thrown>>

executeNextTestCall ==
  /\ \E b \in Behaviours \cup {NoBehaviour} : executeNextTestCallWith(b)
  /\ UNCHANGED auxVars

\* compareWithObtainedValue comparing the two values by reference
compareWithObtainedValue_ByReference(value, testCallExecution) ==
  [testCallExecution EXCEPT
     !.testExecutionStatus = DONE_EXECUTION,
     !.passed = testCallExecution.expected.error = NoError
                  /\ value = testCallExecution.expected.value,
     !.obtained = makeNormalTestCallResult(value)]

compareWithObtainedValue(value, testCallExecution) ==
  [testCallExecution EXCEPT
     !.testExecutionStatus = DONE_EXECUTION,
     !.passed = testCallExecution.expected.error = NoError
                  /\ DeepEqualValues(value, testCallExecution.expected.value),
     !.obtained = makeNormalTestCallResult(value)]

\* [threw |-> TRUE] when asErrorOrConstructor throws, after the status and
\* passed have been assigned
compareWithObtainedError(reason, testCallExecution) ==
  LET expected == testCallExecution.expected.error
      passed == IF expected = NoError
                  THEN FALSE
                  ELSE IF IsErrorInstance(expected)
                    THEN IF IsErrorInstance(reason)
                           THEN DeepEqualErrors(expected, reason)
                           ELSE FALSE
                    ELSE InstanceOf(reason, expected)
      converted == asErrorOrConstructor(reason)
      assigned == [testCallExecution EXCEPT !.testExecutionStatus = DONE_EXECUTION,
                                            !.passed = passed]
  IN IF converted.threw
       THEN [threw |-> TRUE, reason |-> converted.result, execution |-> assigned]
       ELSE [threw |-> FALSE, reason |-> NoError,
             execution |-> [assigned EXCEPT !.obtained = makeErrorTestCallResult(converted.result)]]

cancelTestCallExecution(reason, testCallExecution) ==
  [testCallExecution EXCEPT
     !.testExecutionStatus = CANCELLED_EXECUTION,
     !.error = IF IsErrorInstance(reason) THEN reason ELSE Thing("error", "Error", "String(reason)")]

\* what onFulfilled(value) does when the guard lets it through: the record
\* as it leaves it, whether it calls process.nextTick(executeNextTestCall)
\* (next) and whether it calls cancelExecution() (cancel)
onFulfilled(e, value) ==
  [execution |-> compareWithObtainedValue(value, recs[e.rec]), next |-> TRUE, cancel |-> FALSE]

\* onRejected with a timeout failing the call only: the run goes on
onRejected_TimeoutNotFatal(e, reason) ==
  IF e.hasTimedOut
    THEN [execution |-> cancelTestCallExecution(reason, recs[e.rec]),
          next |-> TRUE, cancel |-> FALSE]
    ELSE LET compared == compareWithObtainedError(reason, recs[e.rec])
         IN IF compared.threw
              THEN [execution |-> cancelTestCallExecution(compared.reason, compared.execution),
                    next |-> FALSE, cancel |-> TRUE]
              ELSE [execution |-> compared.execution, next |-> TRUE, cancel |-> FALSE]

\* onRejected falling through after the timeout branch: it cancels the run
\* and schedules the next call as well
onRejected_FallsThrough(e, reason) ==
  LET compared == compareWithObtainedError(reason, recs[e.rec])
  IN IF e.hasTimedOut
       THEN [execution |-> cancelTestCallExecution(reason, recs[e.rec]),
             next |-> TRUE, cancel |-> TRUE]
       ELSE IF compared.threw
         THEN [execution |-> cancelTestCallExecution(compared.reason, compared.execution),
               next |-> FALSE, cancel |-> TRUE]
         ELSE [execution |-> compared.execution, next |-> TRUE, cancel |-> FALSE]

\* the same for onRejected(reason)
onRejected(e, reason) ==
  IF e.hasTimedOut
    THEN [execution |-> cancelTestCallExecution(reason, recs[e.rec]),
          next |-> FALSE, cancel |-> TRUE]
    ELSE LET compared == compareWithObtainedError(reason, recs[e.rec])
         IN IF compared.threw
              THEN [execution |-> cancelTestCallExecution(compared.reason, compared.execution),
                    next |-> FALSE, cancel |-> TRUE]
              ELSE [execution |-> compared.execution, next |-> TRUE, cancel |-> FALSE]

\* the guard of onFulfilled and onRejected
WrapUpAllowed(e) == ~e.wrapUpDone

\* the reaction of Promise.race(...).then(onFulfilled, onRejected) of closure
\* e, followed by the queueing of the .finally reaction; rest is the promise
\* jobs behind this one
Handler(e, outcome, rest) ==
  LET finally == Job("finally", <<e.run, e.rec>>, NoOutcome)
  IN IF WrapUpAllowed(e)
       THEN LET effect == IF outcome.settled = "fulfilled"
                            THEN onFulfilled(e, outcome.value)
                            ELSE onRejected(e, outcome.reason)
            IN /\ recs' = [recs EXCEPT ![e.rec] = effect.execution]
               /\ execs' = (execs \ {e}) \cup
                             {[e EXCEPT !.wrapUpDone = TRUE,
                                        !.nextTicks = IF effect.next THEN @ + 1 ELSE @,
                                        !.cancels = IF effect.cancel THEN @ + 1 ELSE @]}
               /\ tickQueue' = IF effect.next THEN Append(tickQueue, e.run) ELSE tickQueue
               /\ IF effect.cancel
                    THEN /\ running' = FALSE
                         /\ runs' = cancelExecution(e.run)
                         /\ microtasks' = Append(rest, finally)
                    ELSE /\ microtasks' = Append(rest, finally)
                         /\ UNCHANGED <<running, runs>>
       ELSE /\ microtasks' = Append(rest, finally)
            /\ UNCHANGED <<recs, tickQueue, execs, running, runs>>

\* one promise job
RunMicrotask ==
  /\ microtasks # <<>>
  /\ tickQueue = <<>> \/ phase = "micro"
  /\ LET job == Head(microtasks)
         rest == Tail(microtasks)
     IN CASE job.kind = "raceInput" ->
               \* the first settled input settles the race
               LET e == Exec(job.x)
               IN /\ IF e.race = "pending"
                       THEN /\ execs' = (execs \ {e}) \cup {[e EXCEPT !.race = "settled"]}
                            /\ microtasks' = Append(rest, Job("handler", job.x, job.outcome))
                       ELSE /\ microtasks' = rest
                            /\ execs' = Replaced(e, e, rest)
                  /\ UNCHANGED <<recs, tickQueue, running, runs>>
          [] job.kind = "handler" ->
               Handler(Exec(job.x), job.outcome, rest)
          [] OTHER ->
               \* the .finally reaction: clearTimeout(timeoutID)
               LET e == Exec(job.x)
               IN /\ execs' = Replaced(e, [e EXCEPT !.timer = IF @ = "armed" THEN "cleared" ELSE @,
                                                    !.timerLeft = 0], rest)
                  /\ microtasks' = rest
                  /\ UNCHANGED <<recs, tickQueue, running, runs>>
  /\ phase' = IF microtasks' = <<>> THEN "tick" ELSE "micro"
  /\ UNCHANGED <<testCallExecutions, specifiers, thrown>>
  /\ UNCHANGED auxVars

\* both queues drained: the event loop takes the next timed event
Idle == tickQueue = <<>> /\ microtasks = <<>>

\* the setTimeout callback run as soon as its delay has elapsed, ahead of
\* the promise jobs that are queued
TimerFires_AheadOfJobs ==
  \E e \in execs :
    /\ tickQueue = <<>>
    /\ e.timer = "armed"
    /\ e.timerLeft = 0
    /\ execs' = (execs \ {e}) \cup {[e EXCEPT !.timer = "fired", !.hasTimedOut = TRUE]}
    /\ microtasks' = <<Job("raceInput", <<e.run, e.rec>>, Rejected(TimeoutError))>> \o microtasks
    /\ phase' = "micro"
    /\ UNCHANGED <<running, testCallExecutions, recs, specifiers, runs, tickQueue, thrown>>
    /\ UNCHANGED auxVars

\* the setTimeout callback of a closure
TimerFires ==
  \E e \in execs :
    /\ Idle
    /\ e.timer = "armed"
    /\ e.timerLeft = 0
    /\ execs' = (execs \ {e}) \cup {[e EXCEPT !.timer = "fired", !.hasTimedOut = TRUE]}
    /\ microtasks' = <<Job("raceInput", <<e.run, e.rec>>, Rejected(TimeoutError))>>
    /\ UNCHANGED <<running, testCallExecutions, recs, specifiers, runs, tickQueue, phase, thrown>>
    /\ UNCHANGED auxVars

\* the promise returned by the tested function of a closure settles
FunctionSettles ==
  \E e \in execs :
    /\ Idle
    /\ e.fn = "pending"
    /\ e.fnLeft = 0
    /\ execs' = (execs \ {e}) \cup {[e EXCEPT !.fn = "settled", !.outcome = NoOutcome]}
    /\ microtasks' = <<Job("raceInput", <<e.run, e.rec>>, e.outcome)>>
    /\ UNCHANGED <<running, testCallExecutions, recs, specifiers, runs, tickQueue, phase, thrown>>
    /\ UNCHANGED auxVars

\* the times left before the pending timed events
DueTimes ==
  {e.timerLeft : e \in {f \in execs : f.timer = "armed"}}
  \cup {e.fnLeft : e \in {f \in execs : f.fn = "pending"}}

\* nothing is due: time passes until the next event is due
TimePasses ==
  /\ Idle
  /\ DueTimes # {}
  /\ \A t \in DueTimes : t > 0
  /\ LET elapsed == CHOOSE t \in DueTimes : \A u \in DueTimes : t <= u
     IN execs' = {[e EXCEPT !.timerLeft = IF e.timer = "armed" THEN @ - elapsed ELSE @,
                            !.fnLeft = IF e.fn = "pending" THEN @ - elapsed ELSE @] : e \in execs}
  /\ UNCHANGED <<running, testCallExecutions, recs, specifiers, runs, tickQueue, microtasks,
                 phase, thrown>>
  /\ UNCHANGED auxVars

Next ==
  \/ call
  \/ stopPast
  \/ equals
  \/ throws
  \/ reset
  \/ run
  \/ executeNextTestCall
  \/ RunMicrotask
  \/ TimerFires
  \/ FunctionSettles
  \/ TimePasses

Spec == Init /\ [][Next]_vars

\* The event loop keeps running: a queued nextTick callback or promise job is
\* run, a due timer fires, a due settlement happens and time passes.
Fairness ==
  /\ WF_vars(executeNextTestCall)
  /\ WF_vars(RunMicrotask)
  /\ WF_vars(TimerFires)
  /\ WF_vars(FunctionSettles)
  /\ WF_vars(TimePasses)

LiveSpec == Init /\ [][Next]_vars /\ Fairness

\* ---------------------------------------------------------- one execution
\* One call registered with its expectation, run once, over the detailed
\* domain; what the tested function did is kept beside the engine's state.
ComparisonInit ==
  \E testCall \in [timeoutDuration : {NullDuration} \cup StopPastDurations],
     expected \in ComparedExpectations :
    /\ running = FALSE
    /\ testCallExecutions = <<1>>
    /\ recs = <<initializeTestCallExecution(expected, testCall)>>
    /\ specifiers = {testCall}
    /\ runs = <<>>
    /\ execs = {}
    /\ tickQueue = <<>>
    /\ microtasks = <<>>
    /\ phase = "tick"
    /\ thrown = NoError
    /\ created = <<>>
    /\ behaved = NoBehaviour
    /\ folderWalker = NoFolderWalker
    /\ orchestrator = NoOrchestrator

\* the first run() of the session
runOnce ==
  /\ runs = <<>>
  /\ run

\* executeNextTestCall, what the invoked function does being noted
executeNextTestCallNoted ==
  \E b \in ComparedBehaviours \cup {NoBehaviour} :
    /\ executeNextTestCallWith(b)
    /\ behaved' = IF b # NoBehaviour THEN b ELSE behaved
    /\ UNCHANGED <<created, folderWalker, orchestrator>>

ComparisonNext ==
  \/ runOnce
  \/ executeNextTestCallNoted
  \/ RunMicrotask
  \/ TimerFires
  \/ FunctionSettles
  \/ TimePasses

ComparisonSpec == ComparisonInit /\ [][ComparisonNext]_vars

\* ------------------------------------------------------- the folder walker
\* A file tree and the options of a walk, before walkFolder is called.
WalkInit ==
  /\ running = FALSE
  /\ testCallExecutions = <<>>
  /\ recs = <<>>
  /\ specifiers = {}
  /\ runs = <<>>
  /\ execs = {}
  /\ tickQueue = <<>>
  /\ microtasks = <<>>
  /\ phase = "tick"
  /\ thrown = NoError
  /\ created = <<>>
  /\ behaved = NoBehaviour
  /\ \E fs \in FileTrees, options \in FolderWalkerOptions :
       folderWalker = [constructed |-> "no", fs |-> fs, options |-> options]
  /\ orchestrator = NoOrchestrator

\* doesFolderExistSync taking every folder for an existing one
doesFolderExistSync_Always(fs) == "exists"

\* doesFolderExistSync: "threw" when readdirSync fails with another error
\* than ENOENT (the root is a file)
doesFolderExistSync(fs) ==
  CASE fs[<<>>] = "dir" -> "exists"
    [] fs[<<>>] = "none" -> "null"
    [] OTHER -> "threw"

\* new FolderWalker(absoluteFolder, options): the stream in its first state
FolderWalker(fs, options) ==
  [constructed |-> IF doesFolderExistSync(fs) = "threw" THEN "threw" ELSE "yes",
   fs |-> fs,
   options |-> options,
   absoluteResolvedPathnames |-> IF doesFolderExistSync(fs) = "exists" THEN <<<<>>>> ELSE <<>>,
   absoluteLengthLimit |-> IF doesFolderExistSync(fs) = "exists" /\ options.depthLimit > -1
                             THEN RootSplitLength + options.depthLimit
                             ELSE NoLimit,
   pc |-> "idle",          \* where the pending _read is: idle (none pending),
                           \* next (in the loop of folderWalker_NextItem),
                           \* stat or readdir (that probe is in flight)
   pathname |-> <<>>,      \* the pathname popped last
   probes |-> 0,           \* the stat and readdir calls whose callback is due
   pushed |-> <<>>,        \* the items given to this.push
   ended |-> FALSE,        \* this.push(null) was called
   destroyed |-> FALSE]    \* this.destroy(error) was called

\* walkFolder(absoluteFolder, options)
walkFolder ==
  /\ folderWalker.constructed = "no"
  /\ folderWalker' = FolderWalker(folderWalker.fs, folderWalker.options)
  /\ UNCHANGED <<engineVars, created, behaved, orchestrator>>

\* Readable.push(chunk): the items given to the stream; a destroyed stream
\* drops the chunk
push(chunk) ==
  IF folderWalker.destroyed
    THEN folderWalker.pushed
    ELSE Append(folderWalker.pushed, chunk)

\* a stream that goes on calling _read() after it was destroyed
read_AfterDestroy ==
  /\ folderWalker.constructed = "yes"
  /\ folderWalker.pc = "idle"
  /\ ~folderWalker.ended
  /\ folderWalker' = [folderWalker EXCEPT !.pc = "next"]
  /\ UNCHANGED <<engineVars, created, behaved, orchestrator>>

\* a stream that calls _read() again before the pending one has pushed
read_WhilePending ==
  /\ folderWalker.constructed = "yes"
  /\ ~folderWalker.ended
  /\ ~folderWalker.destroyed
  /\ folderWalker' = [folderWalker EXCEPT !.pc = "next"]
  /\ UNCHANGED <<engineVars, created, behaved, orchestrator>>

\* the stream calls _read(): no _read is pending, the stream is neither
\* ended nor destroyed
read ==
  /\ folderWalker.constructed = "yes"
  /\ folderWalker.pc = "idle"
  /\ ~folderWalker.ended
  /\ ~folderWalker.destroyed
  /\ folderWalker' = [folderWalker EXCEPT !.pc = "next"]
  /\ UNCHANGED <<engineVars, created, behaved, orchestrator>>

\* folderWalker_NextItem taking the oldest pathname of the stack instead of
\* the newest
folderWalker_NextItem_Shift ==
  /\ folderWalker.constructed = "yes"
  /\ folderWalker.pc = "next"
  /\ LET stack == folderWalker.absoluteResolvedPathnames
     IN IF stack = <<>>
          THEN folderWalker' = [folderWalker EXCEPT !.pc = "idle", !.ended = TRUE]
          ELSE folderWalker' = [folderWalker EXCEPT
                                  !.pc = "stat",
                                  !.probes = @ + 1,
                                  !.pathname = Head(stack),
                                  !.absoluteResolvedPathnames = Tail(stack)]
  /\ UNCHANGED <<engineVars, created, behaved, orchestrator>>

\* one turn of the loop of folderWalker_NextItem: the pathname on top of the
\* stack is popped and its stat asked for; with an empty stack the promise
\* resolves with null and _read calls this.push(null)
folderWalker_NextItem ==
  /\ folderWalker.constructed = "yes"
  /\ folderWalker.pc = "next"
  /\ LET stack == folderWalker.absoluteResolvedPathnames
     IN IF stack = <<>>
          THEN folderWalker' = [folderWalker EXCEPT !.pc = "idle", !.ended = TRUE]
          ELSE folderWalker' = [folderWalker EXCEPT
                                  !.pc = "stat",
                                  !.probes = @ + 1,
                                  !.pathname = stack[Len(stack)],
                                  !.absoluteResolvedPathnames = SubSeq(stack, 1, Len(stack) - 1)]
  /\ UNCHANGED <<engineVars, created, behaved, orchestrator>>

\* the age of the entry at pathname when executeTestCallsOfFolder started:
\* time - fsStats.mtime.valueOf()
Age(pathname) == orchestrator.age[pathname[Len(pathname)]]

\* makeTestFileChecker(time, maxExecutionAge)(pathname, fsStats)
makeTestFileChecker(pathname, kind) ==
  kind = "file" /\ Age(pathname) >= orchestrator.maxExecutionAge

\* itemFilter(pathname, fsStats)
ItemFilter(options, pathname, kind) ==
  CASE options.itemFilter = "isFile" -> kind = "file"
    [] options.itemFilter = "isDirectory" -> kind = "dir"
    [] options.itemFilter = "makeTestFileChecker" -> makeTestFileChecker(pathname, kind)
    [] OTHER -> FALSE

\* the stat of the popped pathname comes back, the itemFilter being asked
\* about the files only
fsStat_FilesFiltered ==
  /\ folderWalker.constructed = "yes"
  /\ folderWalker.pc = "stat"
  /\ LET pathname == folderWalker.pathname
         kind == folderWalker.fs[pathname]
         limit == folderWalker.absoluteLengthLimit
     IN \/ folderWalker' = [folderWalker EXCEPT !.pc = "idle", !.probes = @ - 1,
                                                !.destroyed = TRUE]
        \/ /\ kind # "none"
           /\ folderWalker' =
             IF kind = "file" /\ ItemFilter(folderWalker.options, pathname, kind)
               THEN [folderWalker EXCEPT !.pc = "next", !.probes = @ - 1]
               ELSE IF kind = "file"
                 THEN [folderWalker EXCEPT !.pc = "idle", !.probes = @ - 1,
                                           !.pushed = push(asAbsoluteFile(pathname))]
                 ELSE IF limit # NoLimit /\ SplitLength(pathname) > limit
                   THEN [folderWalker EXCEPT !.pc = "idle", !.probes = @ - 1,
                                             !.pushed = push(asAbsoluteFolder(pathname))]
                   ELSE \* the stat is back, the readdir is asked for
                        [folderWalker EXCEPT !.pc = "readdir"]
  /\ UNCHANGED <<engineVars, created, behaved, orchestrator>>

\* the stat of the popped pathname comes back. On an error the promise is
\* rejected and _read destroys the stream. An item the itemFilter answers
\* true for is passed over: the loop goes on. Otherwise _read gets the item:
\* a file is pushed, a folder beyond the depth limit is pushed, the content
\* of any other folder is asked for.
fsStat ==
  /\ folderWalker.constructed = "yes"
  /\ folderWalker.pc = "stat"
  /\ LET pathname == folderWalker.pathname
         kind == folderWalker.fs[pathname]
         limit == folderWalker.absoluteLengthLimit
     IN \/ folderWalker' = [folderWalker EXCEPT !.pc = "idle", !.probes = @ - 1,
                                                !.destroyed = TRUE]
        \/ /\ kind # "none"
           /\ folderWalker' =
             IF ItemFilter(folderWalker.options, pathname, kind)
               THEN [folderWalker EXCEPT !.pc = "next", !.probes = @ - 1]
               ELSE IF kind = "file"
                 THEN [folderWalker EXCEPT !.pc = "idle", !.probes = @ - 1,
                                           !.pushed = push(asAbsoluteFile(pathname))]
                 ELSE IF limit # NoLimit /\ SplitLength(pathname) > limit
                   THEN [folderWalker EXCEPT !.pc = "idle", !.probes = @ - 1,
                                             !.pushed = push(asAbsoluteFolder(pathname))]
                   ELSE \* the stat is back, the readdir is asked for
                        [folderWalker EXCEPT !.pc = "readdir"]
  /\ UNCHANGED <<engineVars, created, behaved, orchestrator>>

\* the stacking loop stopping one Dirent short
Stacked_ButLast(pathname, processedFsDirents) ==
  [i \in 1..(Len(processedFsDirents) - 1) |-> Append(pathname, processedFsDirents[i].name)]

\* the pathnames stacked for the Dirents of a folder, in their order
Stacked(pathname, processedFsDirents) ==
  [i \in DOMAIN processedFsDirents |-> Append(pathname, processedFsDirents[i].name)]

\* the callback of readdir. On an error the folder is pushed and the stream
\* destroyed. Otherwise the Dirents, in the order readdir gave them, are
\* filtered, sorted, stacked, and the folder is pushed.
readdir ==
  /\ folderWalker.constructed = "yes"
  /\ folderWalker.pc = "readdir"
  /\ LET pathname == folderWalker.pathname
         fsDirents == ArrayFilter(folderWalker.options, Dirents(folderWalker.fs, pathname))
     IN \/ folderWalker' = [folderWalker EXCEPT
                              !.pc = "idle",
                              !.probes = @ - 1,
                              !.pushed = push(asAbsoluteFolder(pathname)),
                              !.destroyed = TRUE]
        \/ \E array \in ArraysOf(fsDirents) :
             LET processedFsDirents ==
                   IF folderWalker.options.arraySortFunction = "default"
                     THEN SortedDefault(fsDirents)
                     ELSE array
             IN folderWalker' = [folderWalker EXCEPT
                  !.pc = "idle",
                  !.probes = @ - 1,
                  !.absoluteResolvedPathnames = @ \o Stacked(pathname, processedFsDirents),
                  !.pushed = push(asAbsoluteFolder(pathname))]
  /\ UNCHANGED <<engineVars, created, behaved, orchestrator>>

WalkNext ==
  \/ walkFolder
  \/ read
  \/ folderWalker_NextItem
  \/ fsStat
  \/ readdir

WalkSpec == WalkInit /\ [][WalkNext]_vars

\* A consumed stream asks for the next item whenever none is pending, and
\* every probe of the file system is answered, with or without an error.
WalkLiveSpec == WalkInit /\ [][WalkNext]_vars /\ WF_vars(WalkNext)

\* ---------------------------------------------------------- registration
\* The registration calls alone, with the order in which the TestCalls were
\* built kept beside the engine's state (the engine keeps no such order).
Noted(testCall) ==
  IF \E i \in 1..Len(created) : created[i] = testCall
    THEN created
    ELSE Append(created, testCall)

\* $(fn, ...values), its TestCall noted
callNoted ==
  /\ makeTestCallSpecifier(NullDuration)
  /\ created' = Noted([timeoutDuration |-> NullDuration])
  /\ UNCHANGED <<behaved, folderWalker, orchestrator>>

\* $.stopPast(timeout, fn, ...values), its TestCall noted
stopPastNoted ==
  \E timeout \in StopPastDurations :
    /\ makeTestCallSpecifier(timeout)
    /\ created' = Noted([timeoutDuration |-> timeout])
    /\ UNCHANGED <<behaved, folderWalker, orchestrator>>

RegistrationNext ==
  \/ callNoted
  \/ stopPastNoted
  \/ equals
  \/ throws
  \/ reset

RegistrationSpec == Init /\ [][RegistrationNext]_vars

\* ------------------------------------------- registration during the run
\* A session where a specifier exists and nothing is registered before
\* run(): every record is registered by code that runs while the run is in
\* progress (the code following the call of run(), a tested function, a
\* callback).
LateRegistrationInit ==
  /\ running = FALSE
  /\ testCallExecutions = <<>>
  /\ recs = <<>>
  /\ specifiers = {[timeoutDuration |-> NullDuration]}
  /\ runs = <<>>
  /\ execs = {}
  /\ tickQueue = <<>>
  /\ microtasks = <<>>
  /\ phase = "tick"
  /\ thrown = NoError
  /\ created = <<>>
  /\ behaved = NoBehaviour
  /\ folderWalker = NoFolderWalker
  /\ orchestrator = NoOrchestrator

\* specifier.equals(value) called while the run is in progress
equalsDuringRun ==
  /\ running
  /\ equals

\* specifier.throws(error) called while the run is in progress
throwsDuringRun ==
  /\ running
  /\ throws

LateRegistrationNext ==
  \/ runOnce
  \/ equalsDuringRun
  \/ throwsDuringRun
  \/ executeNextTestCall
  \/ RunMicrotask
  \/ TimerFires
  \/ FunctionSettles
  \/ TimePasses

LateRegistrationSpec == LateRegistrationInit /\ [][LateRegistrationNext]_vars

\* ------------------------------------------------------- the timer of a call
\* Two calls registered, each with its own timeout or none, run once; the
\* timeouts lie on both sides of the default one and the tested functions
\* settle before, at or after them, or never. What each invoked function
\* did is kept beside the engine's state, in the order of the invocations.
TimeboxDurations == {0, 10, 300}
TimeboxDelays == {5, 10, 250, 300}
TimeboxReasons == {Thing("error", "TypeError", "m1"), NullishReason}
TimeboxOutcomes ==
  {Fulfilled(v) : v \in ExpectedValues} \cup {Rejected(r) : r \in TimeboxReasons}
TimeboxBehaviours ==
  [mode : {"sync"}, outcome : TimeboxOutcomes, delay : {0}]
  \cup [mode : {"async"}, outcome : TimeboxOutcomes, delay : TimeboxDelays]
  \cup [mode : {"never"}, outcome : {NoOutcome}, delay : {0}]

TimeboxInit ==
  \E first, second \in [timeoutDuration : {NullDuration} \cup TimeboxDurations],
     expected \in {makeNormalTestCallResult(value) : value \in ExpectedValues} :
    /\ running = FALSE
    /\ testCallExecutions = <<1, 2>>
    /\ recs = <<initializeTestCallExecution(expected, first),
                initializeTestCallExecution(expected, second)>>
    /\ specifiers = {first, second}
    /\ runs = <<>>
    /\ execs = {}
    /\ tickQueue = <<>>
    /\ microtasks = <<>>
    /\ phase = "tick"
    /\ thrown = NoError
    /\ created = <<>>
    /\ behaved = <<>>
    /\ folderWalker = NoFolderWalker
    /\ orchestrator = NoOrchestrator

\* executeNextTestCall, what the invoked function does being appended
executeNextTestCallTimed ==
  \E b \in TimeboxBehaviours \cup {NoBehaviour} :
    /\ executeNextTestCallWith(b)
    /\ behaved' = IF b # NoBehaviour THEN Append(behaved, b) ELSE behaved
    /\ UNCHANGED <<created, folderWalker, orchestrator>>

TimeboxNext ==
  \/ runOnce
  \/ executeNextTestCallTimed
  \/ RunMicrotask
  \/ TimerFires
  \/ FunctionSettles
  \/ TimePasses

TimeboxSpec == TimeboxInit /\ [][TimeboxNext]_vars

\* The event loop keeps running, as in LiveSpec.
TimeboxLiveSpec == TimeboxInit /\ [][TimeboxNext]_vars /\ WF_vars(TimeboxNext)

\* ------------------------------------------------------- the orchestrator
\* executeTestCallsOfFolder walks the test folder with a 'data', an 'end' and
\* an 'error' listener. The stream is flowing and every push is made outside
\* _read on an empty buffer, so each pushed item is handed to the 'data'
\* listener at once: the files chained on the promise are the test files
\* among the pushed items, in their order.

\* DEFAULT_TEST_FOLDER_EXECUTION_OPTIONS.maxExecutionAge, in milliseconds
DEFAULT_MAX_EXECUTION_AGE == 1800000

\* the ages of the files: just below the maximal age, equal to it, above it
Ages == {DEFAULT_MAX_EXECUTION_AGE - 1, DEFAULT_MAX_EXECUTION_AGE, DEFAULT_MAX_EXECUTION_AGE + 1}

\* the extensions of the files
Extensions == {"js", "cjs", "mjs", "txt"}

TestFolderExecutionOptions ==
  [skipTimeboxedTests : {FALSE},
   onlyLastModified : BOOLEAN,
   maxExecutionAge : {DEFAULT_MAX_EXECUTION_AGE}]

\* the test folders: missing, a file, or a folder holding the entry "a" (a
\* file, or a folder with at most the entry "a" of its own) and the file "b"
TestFolders ==
  {fs \in FileTrees : fs[<<"b">>] # "dir" /\ fs[<<"a", "b">>] = "none"}

\* the extension of the files of each name; the ones named "b" are test
\* files or text files
TestFileExtensions ==
  {extension \in [Names -> Extensions] : extension["b"] \in {"js", "txt"}}

\* the age of the files of each name; the ones named "b" are recent
TestFileAges ==
  {age \in [Names -> Ages] : age["b"] = DEFAULT_MAX_EXECUTION_AGE - 1}

\* what the functions tested by the files do: they return at once
TestFileBehaviours ==
  [mode : {"sync"}, outcome : {Fulfilled(v) : v \in Values \cup ExpectedValues}, delay : {0}]

\* DEFAULT_FOLDER_WALKER_OPTIONS
DEFAULT_FOLDER_WALKER_OPTIONS ==
  [arraySortFunction |-> "default", arrayFilterFunction |-> "null",
   depthLimit |-> NoLimit, itemFilter |-> "null"]

\* the state before executeTestCallsOfFolder($, testFolder, options) is
\* called on a fresh supervisor
FolderInit ==
  /\ running = FALSE
  /\ testCallExecutions = <<>>
  /\ recs = <<>>
  /\ specifiers = {}
  /\ runs = <<>>
  /\ execs = {}
  /\ tickQueue = <<>>
  /\ microtasks = <<>>
  /\ phase = "tick"
  /\ thrown = NoError
  /\ created = <<>>
  /\ behaved = NoBehaviour
  /\ \E fs \in TestFolders, options \in TestFolderExecutionOptions,
        extension \in TestFileExtensions, age \in TestFileAges :
       \* where the ages are not looked at, one age function is enough
       /\ ~options.onlyLastModified => \A name \in Names : age[name] = DEFAULT_MAX_EXECUTION_AGE - 1
       /\ folderWalker = [constructed |-> "no", fs |-> fs,
                          options |-> DEFAULT_FOLDER_WALKER_OPTIONS]
       /\ orchestrator =
            [called |-> FALSE,
             options |-> options,
             maxExecutionAge |-> options.maxExecutionAge,
             extension |-> extension,
             age |-> age,
             outcome |-> "pending",      \* of the promise of executeTestCallsOfFolder
             endEmitted |-> FALSE,       \* the stream emitted 'end'
             errorEmitted |-> FALSE,     \* the stream emitted 'error'
             resolveCalled |-> FALSE,    \* the reaction chained by the 'end' listener ran
             pc |-> "idle",              \* where the chained function in progress is:
                                         \* idle (none in progress), import, run
             position |-> 0,             \* how many chained functions have settled
             firstRecord |-> 0,          \* how many records existed before the import
             imports |-> {},             \* the chained files import() was called for
             runCalls |-> {},            \* the chained files run() was called for
             failures |-> {},            \* the chained files whose function failed
             contributions |-> {},       \* the chained files whose statistics were added
             orphans |-> {},             \* the records registered by a failed import
             globalTestExecutionStatistics |-> newTestExecutionStatistics]

\* isAbsoluteFile(absolutePathItem)
isAbsoluteFile(absolutePathItem) == ~absolutePathItem.folder

\* absoluteFile.extension
ExtensionOf(absoluteFile) ==
  orchestrator.extension[absoluteFile.pathname[Len(absoluteFile.pathname)]]

\* hasJsLikeExtension accepting every extension
hasJsLikeExtension_Any(absoluteFile) == TRUE

hasJsLikeExtension(absoluteFile) ==
  ExtensionOf(absoluteFile) = "js" \/ ExtensionOf(absoluteFile) = "cjs"
    \/ ExtensionOf(absoluteFile) = "mjs"

\* the test of the 'data' listener
IsTestFile(absolutePathItem) ==
  isAbsoluteFile(absolutePathItem) /\ hasJsLikeExtension(absolutePathItem)

\* the files the 'data' listener has chained on the promise so far
Chained == SelectSeq(folderWalker.pushed, IsTestFile)

\* executeTestCallsOfFolder: the options are resolved, the FolderWalker is
\* made with its itemFilter; a constructor that throws rejects the promise
executeTestCallsOfFolder ==
  /\ ~orchestrator.called
  /\ folderWalker.constructed = "no"
  /\ folderWalker' =
       FolderWalker(folderWalker.fs,
                    [DEFAULT_FOLDER_WALKER_OPTIONS EXCEPT
                       !.itemFilter = IF orchestrator.options.onlyLastModified
                                        THEN "makeTestFileChecker"
                                        ELSE "null"])
  /\ orchestrator' = [orchestrator EXCEPT
                        !.called = TRUE,
                        !.outcome = IF folderWalker'.constructed = "threw"
                                      THEN "rejected"
                                      ELSE "pending"]
  /\ UNCHANGED <<engineVars, created, behaved>>

\* the stream emits 'end' once push(null) was called, unless it was destroyed
\* in the meantime; autoDestroy then destroys it without error. The listener
\* chains the resolution on the promise, which no later 'data' can extend.
emitEnd ==
  /\ orchestrator.called
  /\ folderWalker.constructed = "yes"
  /\ folderWalker.ended
  /\ ~folderWalker.destroyed
  /\ ~orchestrator.endEmitted
  /\ orchestrator' = [orchestrator EXCEPT !.endEmitted = TRUE]
  /\ UNCHANGED <<engineVars, created, behaved, folderWalker>>

\* the destroyed stream emits 'error': the listener rejects the promise
emitError ==
  /\ orchestrator.called
  /\ folderWalker.constructed = "yes"
  /\ folderWalker.destroyed
  /\ ~orchestrator.errorEmitted
  /\ orchestrator' = [orchestrator EXCEPT
                        !.errorEmitted = TRUE,
                        !.outcome = IF @ = "pending" THEN "rejected" ELSE @]
  /\ UNCHANGED <<engineVars, created, behaved, folderWalker>>

\* folderWalker.destroy(error): nothing happens to a stream that is already
\* destroyed, by an error or by autoDestroy after 'end'
destroy ==
  IF folderWalker.destroyed \/ orchestrator.endEmitted
    THEN folderWalker
    ELSE [folderWalker EXCEPT !.destroyed = TRUE]

\* the function chained for a file has thrown, leaving the records behind:
\* .catch(stopOnBrokenExecution) destroys the stream and fulfils the chain
\* with the statistics
stopOnBrokenExecution(records) ==
  /\ folderWalker' = destroy
  /\ orchestrator' = [orchestrator EXCEPT
                        !.pc = "idle",
                        !.position = @ + 1,
                        !.failures = @ \cup {orchestrator.position + 1},
                        !.orphans = @ \cup records]

\* the function of the next chained file called as soon as the file is
\* delivered, whatever the function before it is doing
importAndRunTestCalls_Unchained ==
  /\ orchestrator.called
  /\ orchestrator.position < Len(Chained)
  /\ resetCalled
  /\ IF thrown' = NoError
       THEN /\ orchestrator' = [orchestrator EXCEPT
                                  !.pc = "import",
                                  !.imports = @ \cup {orchestrator.position + 1},
                                  !.firstRecord = Len(recs)]
            /\ UNCHANGED folderWalker
       ELSE stopOnBrokenExecution({})
  /\ UNCHANGED <<created, behaved>>

\* the function made by makeImportAndRunTestCalls for the next chained file
\* starts: $.reset(), then import() is called
importAndRunTestCalls ==
  /\ orchestrator.called
  /\ orchestrator.pc = "idle"
  /\ orchestrator.position < Len(Chained)
  /\ resetCalled
  /\ IF thrown' = NoError
       THEN /\ orchestrator' = [orchestrator EXCEPT
                                  !.pc = "import",
                                  !.imports = @ \cup {orchestrator.position + 1},
                                  !.firstRecord = Len(recs)]
            /\ UNCHANGED folderWalker
       ELSE stopOnBrokenExecution({})
  /\ UNCHANGED <<created, behaved>>

\* the top-level code of the imported file calls $(fn, ...values)
callOfFile ==
  /\ orchestrator.called
  /\ orchestrator.pc = "import"
  /\ call

\* the top-level code of the imported file calls specifier.equals(value)
equalsOfFile ==
  /\ orchestrator.called
  /\ orchestrator.pc = "import"
  /\ equals

\* import() rejects: the file cannot be loaded or its top-level code throws
importFails ==
  /\ orchestrator.called
  /\ orchestrator.pc = "import"
  /\ stopOnBrokenExecution((orchestrator.firstRecord + 1)..Len(recs))
  /\ UNCHANGED <<engineVars, created, behaved>>

\* import() resolves: $.run(options) is called; a rejected run() is a
\* failure of the chained function
importResolves ==
  /\ orchestrator.called
  /\ orchestrator.pc = "import"
  /\ runCalled(orchestrator.options.skipTimeboxedTests)
  /\ IF runs'[Len(runs')].promise = "rejected"
       THEN stopOnBrokenExecution({})
       ELSE /\ orchestrator' = [orchestrator EXCEPT
                                  !.pc = "run",
                                  !.runCalls = @ \cup {orchestrator.position + 1}]
            /\ UNCHANGED folderWalker
  /\ UNCHANGED <<created, behaved>>

\* addTestExecutionStatistics(globalTestExecutionStatistics, testExecutionStatistics)
addTestExecutionStatistics(global, stats) ==
  [ok |-> global.ok + stats.ok, ko |-> global.ko + stats.ko,
   skipped |-> global.skipped + stats.skipped, total |-> global.total + stats.total]

\* run() has resolved: the statistics of the file are made and, unless it
\* holds no test, added to the global ones; the chained function returns
runResolves ==
  /\ orchestrator.called
  /\ orchestrator.pc = "run"
  /\ runs[Len(runs)].promise = "resolved"
  /\ LET testExecutionStatistics ==
           makeTestExecutionStatistics(Records(Deref(runs[Len(runs)].result)))
     IN orchestrator' = [orchestrator EXCEPT
          !.pc = "idle",
          !.position = @ + 1,
          !.contributions = IF testExecutionStatistics.total > 0
                              THEN @ \cup {orchestrator.position + 1}
                              ELSE @,
          !.globalTestExecutionStatistics =
             IF testExecutionStatistics.total > 0
               THEN addTestExecutionStatistics(@, testExecutionStatistics)
               ELSE @]
  /\ UNCHANGED <<engineVars, created, behaved, folderWalker>>

\* the reaction the 'end' listener chained on the promise: every chained
\* function has settled, resolve(globalTestExecutionStatistics)
resolveOnEnd ==
  /\ orchestrator.called
  /\ orchestrator.endEmitted
  /\ ~orchestrator.resolveCalled
  /\ orchestrator.pc = "idle"
  /\ orchestrator.position = Len(Chained)
  /\ orchestrator' = [orchestrator EXCEPT
                        !.resolveCalled = TRUE,
                        !.outcome = IF @ = "pending" THEN "resolved" ELSE @]
  /\ UNCHANGED <<engineVars, created, behaved, folderWalker>>

\* executeNextTestCall, the tested functions being the ones of the test files
executeNextTestCallOfFile ==
  /\ \E b \in TestFileBehaviours \cup {NoBehaviour} : executeNextTestCallWith(b)
  /\ UNCHANGED auxVars

FolderNext ==
  \/ executeTestCallsOfFolder
  \/ read
  \/ folderWalker_NextItem
  \/ fsStat
  \/ readdir
  \/ emitEnd
  \/ emitError
  \/ importAndRunTestCalls
  \/ callOfFile
  \/ equalsOfFile
  \/ importFails
  \/ importResolves
  \/ executeNextTestCallOfFile
  \/ RunMicrotask
  \/ runResolves
  \/ resolveOnEnd

FolderSpec == FolderInit /\ [][FolderNext]_vars

\* ================================================================ claims
Range(seq) == {seq[i] : i \in 1..Len(seq)}
PositionOf(id, seq) == CHOOSE i \in 1..Len(seq) : seq[i] = id
StatusOf(id) == recs[id].testExecutionStatus

\* the closure e wraps up in this step
WrapsUp(e) ==
  /\ e \in execs
  /\ ~e.wrapUpDone
  /\ \E f \in execs' : f.run = e.run /\ f.rec = e.rec /\ f.wrapUpDone

\* the records an earlier run than r has invoked or marked Skipped
TouchedBefore(r) ==
  UNION {Range(runs[q].invoked) \cup Range(runs[q].skipped) : q \in 1..(r - 1)}

\* what the wrap-up of call k, whose timer has won the race, does in run r:
\* record k becomes Cancelled and run() resolves in the same step; the run
\* has neither invoked the function of a record after k nor marked it
\* Skipped; the records before k are Done or Skipped. The records after k
\* are Initialized at that moment: all of them (everyRecord), or the ones no
\* earlier run has reached.
TimeoutAborts(everyRecord) ==
  \A e \in execs :
    (WrapsUp(e) /\ e.hasTimedOut) =>
      LET r == e.run
          list == runs'[r].resolved
          k == PositionOf(e.rec, list)
      IN /\ recs'[e.rec].testExecutionStatus = CANCELLED_EXECUTION
         /\ runs[r].promise = "pending"
         /\ runs'[r].promise = "resolved"
         /\ ~running'
         /\ r \notin Range(tickQueue')
         /\ e.rec \in Range(list)
         /\ \A j \in (k + 1)..Len(list) :
              /\ list[j] \notin Range(runs'[r].invoked)
              /\ list[j] \notin Range(runs'[r].skipped)
              /\ (everyRecord \/ list[j] \notin TouchedBefore(r)) =>
                   recs'[list[j]].testExecutionStatus = INITIALIZED_EXECUTION
         /\ \A j \in 1..(k - 1) :
              recs'[list[j]].testExecutionStatus \in {DONE_EXECUTION, SKIPPED_EXECUTION}

\* a resolved run invokes no function and skips no record any more
ResolvedRunsAreOver ==
  \A r \in 1..Len(runs) :
    runs[r].promise = "resolved" =>
      /\ runs'[r].invoked = runs[r].invoked
      /\ runs'[r].skipped = runs[r].skipped

\* C1: when the timer of call k wins the race, record k becomes Cancelled,
\* run() resolves at once and every record after k is Initialized when run()
\* resolves: the run has not invoked its function nor marked it Skipped, and
\* never does; the records before k are Done or Skipped.
C1_TimeoutAbortsRun ==
  [][TimeoutAborts(TRUE) /\ ResolvedRunsAreOver]_vars

\* C1, for the records no earlier run has reached: the same statement, a
\* record after k being Initialized when no earlier run over the same list
\* has invoked or skipped it.
C1_TimeoutAbortsRunUntouched ==
  [][TimeoutAborts(FALSE) /\ ResolvedRunsAreOver]_vars

\* C1 witness: a run with skipTimeboxedTests resolved with its first record
\* Cancelled by the timer and its second record, which carries a timeout,
\* still Initialized
C1_Witness ==
  \E r \in 1..Len(runs) :
    /\ runs[r].promise = "resolved"
    /\ runs[r].skipTimeboxedTests
    /\ Len(runs[r].resolved) >= 2
    /\ StatusOf(runs[r].resolved[1]) = CANCELLED_EXECUTION
    /\ recs[runs[r].resolved[1]].error = TimeoutError
    /\ StatusOf(runs[r].resolved[2]) = INITIALIZED_EXECUTION
    /\ recs[runs[r].resolved[2]].testCall.timeoutDuration # NullDuration

\* the closures whose call is in flight: started and not wrapped up
InFlight == {e \in execs : ~e.wrapUpDone}
Finalized(id) == StatusOf(id) \in {DONE_EXECUTION, SKIPPED_EXECUTION, CANCELLED_EXECUTION}
AcceptedRuns == {r \in 1..Len(runs) : runs[r].promise # "rejected"}

\* C2: every run reaches the records of its list in list order without
\* leaving one out, and the function of a record is invoked only when every
\* record before it is finalized and no other call is in flight: at most one
\* call is in flight at any moment.
C2_OneAtATimeInOrder ==
  /\ Cardinality(InFlight) <= 1
  /\ \A r \in AcceptedRuns :
       LET list == Deref(runs[r].array)
           offset == runs[r].offset
           reached == {list[i] : i \in 1..offset}
       IN /\ offset <= Len(list)
          /\ Range(runs[r].invoked) \cup Range(runs[r].skipped) = reached
          /\ Len(runs[r].invoked) + Len(runs[r].skipped) = offset
          /\ \A i, j \in 1..Len(runs[r].invoked) :
               i < j => PositionOf(runs[r].invoked[i], list) < PositionOf(runs[r].invoked[j], list)
          /\ \A e \in InFlight :
               e.run = r => /\ e.rec = list[offset]
                            /\ r \notin Range(tickQueue)
          /\ \A i \in 1..offset :
               (\A e \in InFlight : e.rec # list[i]) => Finalized(list[i])

\* C2 witness: the second call of a run is in flight, the first one Done
C2_Witness ==
  \E r \in AcceptedRuns :
    /\ Len(runs[r].invoked) = 2
    /\ StatusOf(runs[r].invoked[1]) = DONE_EXECUTION
    /\ \E e \in InFlight : e.run = r /\ e.rec = runs[r].invoked[2]

\* the promise job at the head of the queue belongs to a closure that has
\* wrapped up, and this step runs it
LateJobRuns ==
  /\ RunMicrotask
  /\ Head(microtasks).kind \in {"raceInput", "handler"}
  /\ Exec(Head(microtasks).x).wrapUpDone

\* C3: a started call is wrapped up once: by then it has either scheduled the
\* next call once (its record is Done and the timer has not fired) or
\* cancelled the run once (its record is Cancelled and the run resolved),
\* never both; the timer of a call wrapped up by its completion never fires,
\* and the settlement of the function of a wrapped-up call changes no record,
\* schedules no call and cancels no run.
C3_FinalizedOnce ==
  [][/\ \A e \in execs :
          /\ e.nextTicks + e.cancels = (IF e.wrapUpDone THEN 1 ELSE 0)
          /\ WrapsUp(e) =>
               LET f == CHOOSE g \in execs' : g.run = e.run /\ g.rec = e.rec
               IN /\ f.nextTicks + f.cancels = 1
                  /\ f.nextTicks = 1 =>
                       /\ ~e.hasTimedOut
                       /\ recs'[e.rec].testExecutionStatus = DONE_EXECUTION
                       /\ tickQueue' = Append(tickQueue, e.run)
                       /\ UNCHANGED <<running, runs>>
                  /\ f.cancels = 1 =>
                       /\ recs'[e.rec].testExecutionStatus = CANCELLED_EXECUTION
                       /\ tickQueue' = tickQueue
                       /\ runs[e.run].promise = "pending"
                       /\ runs'[e.run].promise = "resolved"
                       /\ runs'[e.run].resolveCalls = 1
                       /\ \A r \in 1..Len(runs) : r # e.run => runs'[r] = runs[r]
          /\ (e.wrapUpDone /\ ~e.hasTimedOut) =>
               \A f \in execs' : (f.run = e.run /\ f.rec = e.rec) => ~f.hasTimedOut
     /\ LateJobRuns => UNCHANGED <<recs, tickQueue, running, runs>>
     /\ \A r \in 1..Len(runs) : runs'[r].resolveCalls <= 1]_vars

\* C3 witness: the function of a call cancelled by its timer in an earlier
\* run has settled and its promise job is about to run, while a later run is
\* in progress with a call in flight
C3_Witness ==
  /\ microtasks # <<>>
  /\ Head(microtasks).kind = "raceInput"
  /\ \E e \in execs :
       /\ Head(microtasks).x = <<e.run, e.rec>>
       /\ e.wrapUpDone
       /\ e.hasTimedOut
       /\ e.cancels = 1
       /\ running
       /\ \E f \in InFlight : f.run > e.run

\* the run() invocation number r has been accepted and has not resolved
Pending(r) == runs[r].promise = "pending"
Resolved(r) == runs[r].promise = "resolved"

\* C4: every accepted run() eventually resolves: whenever the promise of a
\* run is pending a moment comes when no promise is, and a pending promise
\* can only become a resolved one, which it stays. The array it resolves
\* with is the pending list: the list the run went through, holding the
\* record of every equals / throws call since the last reset, once each, in
\* the order of these calls.
C4_RunResolves ==
  /\ (\E r \in 1..Len(runs) : Pending(r)) ~> (\A r \in 1..Len(runs) : ~Pending(r))
  /\ [][\A r \in 1..Len(runs) :
          /\ Pending(r) => runs'[r].promise \in {"pending", "resolved"}
          /\ Resolved(r) => runs'[r].promise = "resolved"
          /\ (Pending(r) /\ runs'[r].promise = "resolved") =>
               /\ runs'[r].resolved = testCallExecutions
               /\ runs'[r].resolved = Deref(runs[r].array)
               /\ runs'[r].result = CurrentArray
               /\ \A i, j \in 1..Len(testCallExecutions) :
                    i < j => testCallExecutions[i] < testCallExecutions[j]
               /\ \A id \in 1..Len(recs) :
                    (testCallExecutions # <<>> /\ id >= testCallExecutions[1]) =>
                      id \in Range(testCallExecutions)]_vars

\* C4 witness: a run has resolved although the function of its first call
\* never settles, leaving its second record Initialized
C4_Witness ==
  \E r \in 1..Len(runs) :
    /\ Resolved(r)
    /\ runs[r].resolved = testCallExecutions
    /\ Len(runs[r].resolved) = 2
    /\ StatusOf(runs[r].resolved[1]) = CANCELLED_EXECUTION
    /\ StatusOf(runs[r].resolved[2]) = INITIALIZED_EXECUTION
    /\ \E e \in execs : e.run = r /\ e.rec = runs[r].resolved[1] /\ e.fn = "never"

\* the last run() invocation, when this step is one
RunInvoked == Len(runs') = Len(runs) + 1
Rejected_(r) == runs[r].promise = "rejected"
ExecsOf(r) == {e \in execs : e.run = r}

\* C5: run() invoked while a run is in progress is rejected: the step leaves
\* the running flag, the pending list, every record, every call in flight,
\* both queues and the runs made so far as they are, so that the run in
\* progress goes on from the very state it was in; the rejected invocation
\* never reaches a record or resolves. Invoked while no run is in progress,
\* run() is accepted.
C5_RunWhileRunningRejected ==
  /\ [][/\ RunInvoked =>
             /\ \A r \in 1..Len(runs) : runs'[r] = runs[r]
             /\ IF running
                  THEN /\ runs'[Len(runs')].promise = "rejected"
                       /\ UNCHANGED <<running, testCallExecutions, recs, execs, tickQueue,
                                      microtasks, phase, specifiers>>
                  ELSE /\ runs'[Len(runs')].promise = "pending"
                       /\ running'
        /\ \A r \in 1..Len(runs) : Rejected_(r) => runs'[r] = runs[r]]_vars
  /\ [](\A r \in 1..Len(runs) :
          Rejected_(r) =>
            /\ runs[r].offset = 0
            /\ runs[r].invoked = <<>>
            /\ runs[r].skipped = <<>>
            /\ runs[r].resolveCalls = 0
            /\ ExecsOf(r) = {}
            /\ r \notin Range(tickQueue))

\* C5 witness: the run in progress when a second run() was rejected has gone
\* through its two records and resolved
C5_Witness ==
  /\ Len(runs) = 2
  /\ Resolved(1)
  /\ Rejected_(2)
  /\ Len(runs[1].invoked) = 2
  /\ ~running

\* C6: reset() invoked while a run is in progress throws and changes nothing:
\* the pending list, its records and the run in progress are as before;
\* invoked while no run is in progress it throws nothing and leaves the
\* pending list empty.
C6_ResetGuarded ==
  [][reset =>
       IF running
         THEN /\ thrown' = ResetWhileRunningError
              /\ UNCHANGED <<running, testCallExecutions, recs, runs, execs, tickQueue,
                             microtasks>>
         ELSE /\ thrown' = NoError
              /\ testCallExecutions' = <<>>
              /\ ~running']_vars

\* C6 witness: reset() has just failed during a run whose pending list holds
\* two records, one of them with its call in flight
C6_Witness ==
  /\ thrown = ResetWhileRunningError
  /\ running
  /\ Len(testCallExecutions) = 2
  /\ InFlight # {}

Timeboxed(id) == recs[id].testCall.timeoutDuration # NullDuration

\* C7: a run marks a record Skipped exactly when it reaches it with
\* skipTimeboxedTests true and a non-null timeout on the call, and then does
\* not invoke its function; every other record it reaches has its function
\* invoked. The step that skips a record sets its status to Skipped, starts
\* no call and goes on to the next record; no other step makes a record
\* Skipped.
C7_SkipTimeboxed ==
  /\ [](\A r \in AcceptedRuns :
          /\ {Deref(runs[r].array)[i] : i \in 1..runs[r].offset}
               = Range(runs[r].skipped) \cup Range(runs[r].invoked)
          /\ \A id \in Range(runs[r].skipped) :
               runs[r].skipTimeboxedTests /\ Timeboxed(id) /\ id \notin Range(runs[r].invoked)
          /\ \A id \in Range(runs[r].invoked) :
               ~(runs[r].skipTimeboxedTests /\ Timeboxed(id)))
  /\ [][/\ \A r \in 1..Len(runs) :
             runs'[r].skipped # runs[r].skipped =>
               LET id == Deref(runs[r].array)[runs[r].offset + 1]
               IN /\ runs'[r].skipped = Append(runs[r].skipped, id)
                  /\ recs'[id].testExecutionStatus = SKIPPED_EXECUTION
                  /\ ExecsOf(r)' = ExecsOf(r)
                  /\ execs' = execs
                  /\ tickQueue' = Append(Tail(tickQueue), r)
        /\ \A id \in 1..Len(recs) :
             (StatusOf(id) # SKIPPED_EXECUTION /\ StatusOf(id)' = SKIPPED_EXECUTION) =>
               \E r \in 1..Len(runs) : runs'[r].skipped = Append(runs[r].skipped, id)]_vars

\* C7 witness: a run with skipTimeboxedTests has skipped its first record,
\* which carries a timeout, and invoked the function of its second, which
\* carries none
C7_Witness ==
  \E r \in AcceptedRuns :
    /\ runs[r].skipTimeboxedTests
    /\ Len(runs[r].skipped) = 1
    /\ Len(runs[r].invoked) = 1
    /\ runs[r].skipped[1] < runs[r].invoked[1]
    /\ StatusOf(runs[r].skipped[1]) = SKIPPED_EXECUTION
    /\ Timeboxed(runs[r].skipped[1])
    /\ ~Timeboxed(runs[r].invoked[1])

IsOk(x) == x.testExecutionStatus = DONE_EXECUTION /\ x.passed
IsSkipped(x) == x.testExecutionStatus = SKIPPED_EXECUTION
IsKo(x) == ~IsOk(x) /\ ~IsSkipped(x)
\* the positions of the ok, skipped and ko records of a list
OkPositions(list) == {i \in 1..Len(list) : IsOk(list[i])}
SkippedPositions(list) == {i \in 1..Len(list) : IsSkipped(list[i])}
KoPositions(list) == {i \in 1..Len(list) : IsKo(list[i])}
\* the array run() number r has resolved with, as it is now
ResultOf(r) == Records(Deref(runs[r].result))

\* C8: the statistics computed over the array a run has resolved with count
\* every record once: total is the number of records, ok the number of Done
\* records that passed, skipped the number of Skipped records and ko the
\* number of all the others (Done and failed, Cancelled, Initialized), so
\* that ok + ko + skipped = total.
C8_StatisticsAddUp ==
  \A r \in 1..Len(runs) :
    Resolved(r) =>
      LET list == ResultOf(r)
          statistics == makeTestExecutionStatistics(list)
      IN /\ statistics.total = Len(list)
         /\ statistics.ok = Cardinality(OkPositions(list))
         /\ statistics.skipped = Cardinality(SkippedPositions(list))
         /\ statistics.ko = Cardinality(KoPositions(list))
         /\ statistics.ok + statistics.ko + statistics.skipped = statistics.total
         /\ \A i \in KoPositions(list) :
              \/ list[i].testExecutionStatus = DONE_EXECUTION /\ ~list[i].passed
              \/ list[i].testExecutionStatus \in {CANCELLED_EXECUTION, INITIALIZED_EXECUTION}

\* C8 witness: a run has resolved with a Cancelled record and an Initialized
\* one, which the statistics count as two ko
C8_Witness ==
  \E r \in 1..Len(runs) :
    /\ Resolved(r)
    /\ Len(ResultOf(r)) = 2
    /\ ResultOf(r)[1].testExecutionStatus = CANCELLED_EXECUTION
    /\ ResultOf(r)[2].testExecutionStatus = INITIALIZED_EXECUTION
    /\ makeTestExecutionStatistics(ResultOf(r)) = [ok |-> 0, ko |-> 2, skipped |-> 0, total |-> 2]

\* a registration step: $(fn, ...), $.stopPast(...), equals or throws
Registration == call \/ stopPast \/ equals \/ throws
\* this step invokes a tested function: a call is put in flight
Invocation ==
  \/ \E e \in execs' : \A f \in execs : <<f.run, f.rec>> # <<e.run, e.rec>>
  \/ \E r \in 1..Len(runs) : runs'[r].invoked # runs[r].invoked

\* C9: a registration step invokes no tested function: it puts no call in
\* flight, changes no call in flight, no run and neither queue. A tested
\* function is invoked only by executeNextTestCall, for the next record of
\* the pending run that scheduled it, while running is set.
C9_RegistrationExecutesNothing ==
  [][/\ Registration => (~Invocation /\ UNCHANGED <<execs, runs, tickQueue, microtasks, running>>)
     /\ (Len(recs') > Len(recs) \/ specifiers' # specifiers) =>
          (~Invocation /\ UNCHANGED <<execs, runs, tickQueue, microtasks, running>>)
     /\ Invocation =>
          /\ running
          /\ tickQueue # <<>>
          /\ LET r == Head(tickQueue)
                 id == Deref(runs[r].array)[runs[r].offset + 1]
             IN /\ Pending(r)
                /\ runs'[r].invoked = Append(runs[r].invoked, id)
                /\ \A q \in 1..Len(runs) : q # r => runs'[q] = runs[q]
                /\ \E e \in execs' : /\ e.run = r /\ e.rec = id
                                    /\ execs' = execs \cup {e}
                                    /\ e \notin execs]_vars

\* C9 witness: two records have been registered on two specifiers and no
\* function has been invoked: no run has been made and no call is in flight
C9_Witness ==
  /\ Len(recs) = 2
  /\ Cardinality(specifiers) = 2
  /\ recs[1].testCall # recs[2].testCall
  /\ recs[1].expected.error = NoError
  /\ recs[2].expected.error # NoError
  /\ runs = <<>>
  /\ execs = {}

\* the entries of the pending list registered through specifier s
EntriesOf(s) == {i \in 1..Len(testCallExecutions) : recs[testCallExecutions[i]].testCall = s}

\* C10: $(fn, ...) and $.stopPast(...) add no record: the step leaves the
\* records and the pending list as they are, and a specifier just obtained
\* has no entry in the pending list; the pending list gets an entry only by
\* equals or throws, one per call, so that a run over specifiers on which
\* neither was invoked resolves with an empty array, whose statistics are
\* all zero.
C10_SpecifierAloneAddsNothing ==
  /\ [][/\ (call \/ stopPast) => UNCHANGED <<recs, testCallExecutions, runs, execs>>
        /\ specifiers' # specifiers =>
             /\ UNCHANGED <<recs, testCallExecutions, runs, execs>>
             /\ \A s \in specifiers' \ specifiers : EntriesOf(s)' = {}
        /\ testCallExecutions' # testCallExecutions =>
             \/ testCallExecutions' = <<>>
             \/ /\ equals \/ throws
                /\ Len(testCallExecutions') = Len(testCallExecutions) + 1
                /\ specifiers' = specifiers]_vars
  /\ [](\A r \in 1..Len(runs) :
          (Resolved(r) /\ recs = <<>>) =>
            /\ runs[r].resolved = <<>>
            /\ ResultOf(r) = <<>>
            /\ makeTestExecutionStatistics(ResultOf(r)) = newTestExecutionStatistics)

\* C10 witness: two specifiers have been obtained, neither equals nor throws
\* has been invoked, and a run has resolved with an empty array
C10_Witness ==
  /\ Cardinality(specifiers) = 2
  /\ recs = <<>>
  /\ \E r \in 1..Len(runs) :
       /\ Resolved(r)
       /\ ResultOf(r) = <<>>
       /\ makeTestExecutionStatistics(ResultOf(r)).total = 0

\* C11: the position of a record in the pending list is the order in which
\* equals / throws were invoked, not the order in which the specifiers were
\* created: each invocation puts its record after all the records already
\* pending, which keep their places, so the list is in invocation order
\* whatever the creation order of the specifiers was.
C11_InvocationOrder ==
  [][/\ Len(recs') > Len(recs) =>
          /\ Len(recs') = Len(recs) + 1
          /\ testCallExecutions' = Append(testCallExecutions, Len(recs'))
     /\ \A i, j \in 1..Len(testCallExecutions') :
          i < j => testCallExecutions'[i] < testCallExecutions'[j]]_vars

\* A created before B, B's expectation set before A's: B's record is first.
C11_Witness ==
  /\ created = <<[timeoutDuration |-> NullDuration], [timeoutDuration |-> 10]>>
  /\ testCallExecutions = <<1, 2>>
  /\ recs[1].testCall = [timeoutDuration |-> 10]
  /\ recs[2].testCall = [timeoutDuration |-> NullDuration]

\* ---- the one execution of ComparisonSpec
\* timeoutDuration = testCall.timeoutDuration ?? defaultDelay
TimeoutOf(testCall) ==
  IF testCall.timeoutDuration = NullDuration
    THEN DEFAULT_TIMEOUT_DURATION
    ELSE testCall.timeoutDuration

\* the function was invoked and is over before the timeout of its call
InTime ==
  \/ behaved.mode = "sync"
  \/ behaved.mode = "async" /\ behaved.delay < TimeoutOf(recs[1].testCall)

\* the function completed normally / threw or rejected, and the engine has
\* dealt with it
Returned == InTime /\ behaved.outcome.settled = "fulfilled"
                  /\ recs[1].testExecutionStatus # INITIALIZED_EXECUTION
Failed == InTime /\ behaved.outcome.settled = "rejected"
                /\ recs[1].testExecutionStatus # INITIALIZED_EXECUTION

\* C12: when the function completes normally with value V before its
\* timeout, the record becomes Done with obtained = V, and passed is true
\* exactly when the expectation was set with equals(W) and V is deeply equal
\* to W (so it is false when the expectation was set with throws).
C12_ReturnedValueCompared ==
  Returned =>
    /\ recs[1].testExecutionStatus = DONE_EXECUTION
    /\ recs[1].obtained = makeNormalTestCallResult(behaved.outcome.value)
    /\ recs[1].error = NoError
    /\ recs[1].passed =
         \E W \in ComparedExpectedValues :
           /\ recs[1].expected = makeNormalTestCallResult(W)
           /\ Content(behaved.outcome.value) = Content(W)

\* a returned object passes against another object built alike
C12_Witness ==
  /\ Returned
  /\ behaved.outcome.value = "w1"
  /\ recs[1].expected = makeNormalTestCallResult("v1")
  /\ recs[1].passed

\* the expectation was set with throws(C), C an error class / with throws(e),
\* e an Error instance
ExpectsClass == recs[1].expected.error.type = "ctor"
ExpectsInstance == recs[1].expected.error.type = "error"

\* C13: when the expectation is throws(C) with C an error class and the
\* function throws or rejects with R before its timeout, the record becomes
\* Done with passed = (R is an instance of C), whatever the fields of R.
C13_ClassMatch ==
  (Failed /\ ExpectsClass) =>
    /\ recs[1].testExecutionStatus = DONE_EXECUTION
    /\ recs[1].passed = InstanceOf(behaved.outcome.reason, recs[1].expected.error)

\* The same for an R that is an Error: the class of R decides alone.
C13_ClassMatchOfErrors ==
  (Failed /\ ExpectsClass /\ IsErrorInstance(behaved.outcome.reason)) =>
    /\ recs[1].testExecutionStatus = DONE_EXECUTION
    /\ recs[1].passed = IsSubclass(behaved.outcome.reason.cls, recs[1].expected.error.cls)

\* a thrown string passes against throws(Error)
C13_Witness ==
  /\ Failed /\ ExpectsClass
  /\ behaved.mode = "sync"
  /\ behaved.outcome.reason.type = "string"
  /\ recs[1].passed

\* R is an Error of the class and with the message of e
StructurallyEqualErrors(R, e) ==
  R.type = "error" /\ e.type = "error" /\ R.cls = e.cls /\ R.msg = e.msg

\* C14: when the expectation is throws(e) with e an error instance and the
\* function throws or rejects with R, passed is true exactly when R is an
\* error structurally equal to e; an R of the class of e with another
\* message gives Done with passed = false.
C14_InstanceMatch ==
  (Failed /\ ExpectsInstance) =>
    LET R == behaved.outcome.reason
        e == recs[1].expected.error
    IN /\ recs[1].passed = StructurallyEqualErrors(R, e)
       /\ (R.type = "error" /\ R.cls = e.cls /\ R.msg # e.msg) =>
             recs[1].testExecutionStatus = DONE_EXECUTION /\ ~recs[1].passed

\* The same for an R that is an Error.
C14_InstanceMatchOfErrors ==
  (Failed /\ ExpectsInstance /\ IsErrorInstance(behaved.outcome.reason)) =>
    LET R == behaved.outcome.reason
        e == recs[1].expected.error
    IN /\ recs[1].testExecutionStatus = DONE_EXECUTION
       /\ recs[1].passed = StructurallyEqualErrors(R, e)

\* a thrown string passes against throws(new Error(...)) with the message
\* its wrapping gets
C14_Witness ==
  /\ Failed /\ ExpectsInstance
  /\ behaved.outcome.reason.type = "string"
  /\ recs[1].passed

\* an Error of the expected class with another message fails
C14_WitnessOtherMessage ==
  /\ Failed /\ ExpectsInstance
  /\ behaved.outcome.reason = Thing("error", "TypeError", "m2")
  /\ recs[1].expected.error = Thing("error", "TypeError", "m1")
  /\ recs[1].testExecutionStatus = DONE_EXECUTION
  /\ ~recs[1].passed

\* ---- failures of the tested function and of the engine
\* this step is the wrap-up of call e, whose function has thrown or rejected
\* before the timer fired
FailureWrapsUp(e) ==
  /\ WrapsUp(e)
  /\ ~e.hasTimedOut
  /\ Head(microtasks).outcome.settled = "rejected"

\* the run of call e goes on after this step: the next call is scheduled and
\* run() stays pending
GoesOn(e) ==
  /\ tickQueue' = Append(tickQueue, e.run)
  /\ runs'[e.run].promise = "pending"
  /\ running'

\* C15: a tested function that throws or rejects before its timeout never
\* impacts the subsequent test cases: whatever it threw or rejected with and
\* whatever the expectation, its record becomes Done and the run goes on to
\* the later pending calls.
C15_FailureNeverStopsRun ==
  [][\A e \in execs :
       FailureWrapsUp(e) =>
         /\ recs'[e.rec].testExecutionStatus = DONE_EXECUTION
         /\ GoesOn(e)]_vars

\* a first run resolved with its first record Cancelled by the error of
\* asErrorOrConstructor and its second record left Initialized
C15_Witness ==
  /\ Len(runs) = 1
  /\ runs[1].promise = "resolved"
  /\ runs[1].resolved = <<1, 2>>
  /\ recs[1].testExecutionStatus = CANCELLED_EXECUTION
  /\ recs[1].error = NoConstructorError
  /\ recs[2].testExecutionStatus = INITIALIZED_EXECUTION

\* For every value the model throws or rejects with but null and undefined
\* given by a rejected promise, the statement of C15 holds.
C15_FailureWithConstructorNeverStopsRun ==
  [][\A e \in execs :
       (FailureWrapsUp(e) /\ ~asErrorOrConstructor(Head(microtasks).outcome.reason).threw) =>
         /\ recs'[e.rec].testExecutionStatus = DONE_EXECUTION
         /\ GoesOn(e)]_vars

\* this step is the wrap-up of call e in which finalizing the record throws:
\* the result of the failed function cannot be built
FinalizationThrows(e) ==
  /\ FailureWrapsUp(e)
  /\ asErrorOrConstructor(Head(microtasks).outcome.reason).threw

\* what the wrap-up of call e does when finalizing its record throws: the
\* record ends Cancelled carrying the error thrown, run() resolves in the
\* same step and the run neither invokes nor skips a later record; the later
\* records are Initialized at that moment: all of them (everyRecord), or the
\* ones no earlier run has reached.
FinalizationFailureAborts(everyRecord) ==
  \A e \in execs :
    FinalizationThrows(e) =>
      LET r == e.run
          list == runs'[r].resolved
          k == PositionOf(e.rec, list)
      IN /\ recs'[e.rec].testExecutionStatus = CANCELLED_EXECUTION
         /\ recs'[e.rec].error = NoConstructorError
         /\ runs[r].promise = "pending"
         /\ runs'[r].promise = "resolved"
         /\ ~running'
         /\ r \notin Range(tickQueue')
         /\ e.rec \in Range(list)
         /\ \A j \in (k + 1)..Len(list) :
              /\ list[j] \notin Range(runs'[r].invoked)
              /\ list[j] \notin Range(runs'[r].skipped)
              /\ recs'[list[j]] = recs[list[j]]
              /\ (everyRecord \/ list[j] \notin TouchedBefore(r)) =>
                   recs'[list[j]].testExecutionStatus = INITIALIZED_EXECUTION

\* C16: if finalizing a record throws inside the engine, that record ends
\* Cancelled carrying the error, run() resolves immediately and every later
\* record stays Initialized: the run never invokes its function nor marks it
\* Skipped.
C16_FinalizationFailureAborts ==
  [][FinalizationFailureAborts(TRUE) /\ ResolvedRunsAreOver]_vars

\* C16, for the records no earlier run has reached.
C16_FinalizationFailureAbortsUntouched ==
  [][FinalizationFailureAborts(FALSE) /\ ResolvedRunsAreOver]_vars

\* a second run, over two records the first run has made Done, has resolved
\* with the first one Cancelled by the error of asErrorOrConstructor
C16_Witness ==
  /\ Len(runs) = 2
  /\ runs[2].promise = "resolved"
  /\ runs[2].resolved = <<1, 2>>
  /\ runs[1].invoked = <<1, 2>>
  /\ runs[2].invoked = <<1>>
  /\ recs[1].testExecutionStatus = CANCELLED_EXECUTION
  /\ recs[1].error = NoConstructorError
  /\ recs[2].testExecutionStatus = DONE_EXECUTION

\* C17: when a test fails to execute correctly for an internal reason, the
\* rest of the tests run as usual: the run goes on to the later pending
\* calls.
C17_InternalFailureNeverStopsRun ==
  [][\A e \in execs : FinalizationThrows(e) => GoesOn(e)]_vars

\* a run told to skip the calls carrying a timeout has resolved on the
\* internal failure of its first call: the second one, which carries a
\* timeout, was neither executed nor marked Skipped
C17_Witness ==
  /\ Len(runs) = 1
  /\ runs[1].promise = "resolved"
  /\ runs[1].skipTimeboxedTests
  /\ runs[1].resolved = <<1, 2>>
  /\ runs[1].invoked = <<1>>
  /\ runs[1].skipped = <<>>
  /\ recs[1].error = NoConstructorError
  /\ recs[2].testCall.timeoutDuration # NullDuration
  /\ recs[2].testExecutionStatus = INITIALIZED_EXECUTION
  /\ tickQueue = <<>>

\* ---- the life of a record
\* the records this step creates are Initialized, with nothing obtained
CreatedInitialized ==
  /\ Len(recs') >= Len(recs)
  /\ \A i \in (Len(recs) + 1)..Len(recs') :
       /\ recs'[i].testExecutionStatus = INITIALIZED_EXECUTION
       /\ ~recs'[i].passed
       /\ recs'[i].obtained = NoResult
       /\ recs'[i].error = NoError

\* C18: each record is created Initialized, changes state at most once (to
\* Done, Skipped or Cancelled) and is never mutated again afterwards: a
\* record that is no longer Initialized is left as it is by every step, the
\* steps of a second run() without reset() included.
C18_MutatedOnce ==
  [][/\ CreatedInitialized
     /\ \A i \in 1..Len(recs) :
          /\ recs'[i].testExecutionStatus # recs[i].testExecutionStatus =>
               recs'[i].testExecutionStatus \in
                 {DONE_EXECUTION, SKIPPED_EXECUTION, CANCELLED_EXECUTION}
          /\ recs[i].testExecutionStatus # INITIALIZED_EXECUTION =>
               recs'[i] = recs[i]]_vars

\* C18 within the first run that reaches a record: a finalized record is
\* mutated only by a later run() over the same list, which executes or skips
\* it again.
C18_MutatedOncePerRun ==
  [][/\ CreatedInitialized
     /\ \A i \in 1..Len(recs) :
          (recs[i].testExecutionStatus # INITIALIZED_EXECUTION /\ recs'[i] # recs[i]) =>
            \E r \in 1..Len(runs) :
              /\ i \in TouchedBefore(r)
              /\ \/ \E e \in execs : WrapsUp(e) /\ e.run = r /\ e.rec = i
                 \/ runs'[r].skipped = Append(runs[r].skipped, i)]_vars

\* a record the first run marked Skipped is Done after a second run()
\* without reset()
C18_Witness ==
  /\ Len(runs) = 2
  /\ runs[1].skipped = <<1>>
  /\ runs[2].invoked = <<1>>
  /\ runs[2].array = CurrentArray
  /\ recs[1].testExecutionStatus = DONE_EXECUTION

\* ---- the folder walker
\* a walker was built for a root folder that does not exist
MissingRoot ==
  /\ folderWalker.constructed # "no"
  /\ folderWalker.fs[<<>>] = "none"

\* C19: for a root folder that does not exist, the enumeration produces
\* zero items and then ends, without any error: building the walker does
\* not throw, nothing is ever probed, pushed or destroyed, and the first
\* pull ends the stream.
C19_MissingRootYieldsNothing ==
  [][/\ MissingRoot' =>
          /\ folderWalker'.constructed = "yes"
          /\ folderWalker'.pushed = <<>>
          /\ ~folderWalker'.destroyed
          /\ folderWalker'.pc \in {"idle", "next"}
     /\ (MissingRoot /\ folderWalker.pc = "next") => folderWalker'.ended]_vars

\* the stream of a missing root has ended, empty
C19_Witness ==
  /\ MissingRoot
  /\ folderWalker.ended
  /\ folderWalker.pushed = <<>>
  /\ ~folderWalker.destroyed

\* item is below the folder of pathname
IsUnder(item, pathname) ==
  /\ Len(item.pathname) > Len(pathname)
  /\ SubSeq(item.pathname, 1, Len(pathname)) = pathname

\* C20: the traversal is pre-order and depth-first: the root is the first
\* item produced, every folder is produced before any of its descendants
\* (an item comes after the folder it is in), and the descendants of a
\* folder follow it without any other item in between, so all of them are
\* produced before the next sibling subfolder.
C20_PreOrderDepthFirst ==
  folderWalker.constructed = "yes" =>
    LET pushed == folderWalker.pushed
    IN /\ pushed # <<>> => pushed[1] = asAbsoluteFolder(<<>>)
       /\ \A j \in 2..Len(pushed) :
            \E i \in 1..(j - 1) : pushed[i] = asAbsoluteFolder(Parent(pushed[j].pathname))
       /\ \A i, j, k \in 1..Len(pushed) :
            (i < j /\ j < k /\ pushed[i].folder /\ IsUnder(pushed[k], pushed[i].pathname)) =>
              IsUnder(pushed[j], pushed[i].pathname)

\* a walk has ended after two sibling subfolders, each followed by an entry
\* of its own
C20_Witness ==
  /\ folderWalker.constructed = "yes"
  /\ folderWalker.ended
  /\ \E i \in 1..Len(folderWalker.pushed) :
       /\ i + 3 <= Len(folderWalker.pushed)
       /\ folderWalker.pushed[i] = asAbsoluteFolder(<<"a">>)
       /\ IsUnder(folderWalker.pushed[i + 1], <<"a">>)
       /\ folderWalker.pushed[i + 2] = asAbsoluteFolder(<<"b">>)
       /\ IsUnder(folderWalker.pushed[i + 3], <<"b">>)

\* the name of an item in its folder
NameOf(item) == item.pathname[Len(item.pathname)]

\* C21: with the default comparator, the direct children of every expanded
\* folder are visited with all plain files before all subfolders, and
\* within each group in strictly ascending order of name.
C21_FilesFirstThenAscending ==
  (folderWalker.constructed = "yes" /\ folderWalker.options.arraySortFunction = "default") =>
    LET pushed == folderWalker.pushed
    IN \A i, j \in 2..Len(pushed) :
         (i < j /\ Parent(pushed[i].pathname) = Parent(pushed[j].pathname)) =>
           /\ ~(pushed[i].folder /\ ~pushed[j].folder)
           /\ pushed[i].folder = pushed[j].folder =>
                NameRank(NameOf(pushed[i])) < NameRank(NameOf(pushed[j]))

\* a walk with the default comparator has ended: in the root the file "b"
\* came before the folder "a", and in "a" the file "a" before the file "b"
C21_Witness ==
  /\ folderWalker.constructed = "yes"
  /\ folderWalker.options.arraySortFunction = "default"
  /\ folderWalker.ended
  /\ folderWalker.pushed =
       <<asAbsoluteFolder(<<>>), asAbsoluteFile(<<"b">>), asAbsoluteFolder(<<"a">>),
         asAbsoluteFile(<<"a", "a">>), asAbsoluteFile(<<"a", "b">>)>>

\* this step is the answer of stat for a directory, without error
StatOfFolder ==
  /\ folderWalker.constructed = "yes"
  /\ folderWalker.pc = "stat"
  /\ folderWalker.fs[folderWalker.pathname] = "dir"
  /\ ~folderWalker'.destroyed

\* this step is the answer of readdir, without error
FolderRead ==
  /\ folderWalker.constructed = "yes"
  /\ folderWalker.pc = "readdir"
  /\ ~folderWalker'.destroyed

\* the depth limit lets the children of the folder at pathname be visited
WithinDepthLimit(pathname) ==
  \/ folderWalker.options.depthLimit = NoLimit
  \/ Len(pathname) <= folderWalker.options.depthLimit

\* the range of a sequence of pathnames
PathnamesIn(stack) == {stack[i] : i \in 1..Len(stack)}

\* what the walker does with the folder whose stat has come back, when no
\* probe fails: within the depth limit its content is read, every entry of
\* it kept by the arrayFilterFunction is stacked (to be visited by the later
\* pulls) and the folder is pushed; beyond the depth limit the folder is
\* pushed and nothing is stacked.
FolderEmittedAndExpandedByDepth ==
  /\ StatOfFolder =>
       IF WithinDepthLimit(folderWalker.pathname)
         THEN folderWalker'.pc = "readdir"
         ELSE /\ folderWalker'.pc = "idle"
              /\ folderWalker'.pushed =
                   Append(folderWalker.pushed, asAbsoluteFolder(folderWalker.pathname))
              /\ folderWalker'.absoluteResolvedPathnames = folderWalker.absoluteResolvedPathnames
  /\ FolderRead =>
       LET stack == folderWalker.absoluteResolvedPathnames
           stack2 == folderWalker'.absoluteResolvedPathnames
           entries == {Append(folderWalker.pathname, dirent.name) :
                         dirent \in ArrayFilter(folderWalker.options,
                                              Dirents(folderWalker.fs, folderWalker.pathname))}
       IN /\ WithinDepthLimit(folderWalker.pathname)
          /\ folderWalker'.pushed =
               Append(folderWalker.pushed, asAbsoluteFolder(folderWalker.pathname))
          /\ Len(stack2) = Len(stack) + Cardinality(entries)
          /\ SubSeq(stack2, 1, Len(stack)) = stack
          /\ PathnamesIn(SubSeq(stack2, Len(stack) + 1, Len(stack2))) = entries

FolderReadFails ==
  /\ folderWalker.constructed = "yes"
  /\ folderWalker.pc = "readdir"
  /\ folderWalker'.destroyed

\* the walker was destroyed with an error
Destroyed == folderWalker.constructed = "yes" /\ folderWalker.destroyed

\* C23: if reading the children of a folder fails, that folder item is
\* still delivered (pushed to the stream), the stream then is in an error
\* state, and no further item is produced even though entries remain on the
\* stack: nothing is pushed, popped or probed any more and the stream never
\* ends normally.
C23_ReadFailureEndsWalk ==
  [][/\ FolderReadFails =>
          /\ folderWalker'.pushed =
               Append(folderWalker.pushed, asAbsoluteFolder(folderWalker.pathname))
          /\ folderWalker'.absoluteResolvedPathnames = folderWalker.absoluteResolvedPathnames
          /\ ~folderWalker'.ended
     /\ Destroyed => folderWalker' = folderWalker]_vars

\* the read of the folder "a" has failed: the root and "a" were pushed, the
\* stream is destroyed and the entry "b" of the root is still on the stack
C23_Witness ==
  /\ Destroyed
  /\ folderWalker.pathname = <<"a">>
  /\ folderWalker.pushed = <<asAbsoluteFolder(<<>>), asAbsoluteFolder(<<"a">>)>>
  /\ folderWalker.absoluteResolvedPathnames = <<<<"b">>>>
  /\ ~folderWalker.ended

\* the entries of the tree the depth limit lets the walk reach: the root,
\* and the entries of every folder whose depth is within the limit
Reachable(fs, options) ==
  {pathname \in Pathnames :
     /\ fs[pathname] # "none"
     /\ \/ pathname = <<>>
        \/ options.depthLimit = NoLimit
        \/ Len(Parent(pathname)) <= options.depthLimit}

\* the item standing for an entry of the tree
ItemOf(fs, pathname) ==
  IF fs[pathname] = "file" THEN asAbsoluteFile(pathname) ELSE asAbsoluteFolder(pathname)

\* the walk signalled its end
Ended == folderWalker.constructed = "yes" /\ folderWalker.ended

\* no filter is configured
NoFilter ==
  /\ folderWalker.options.itemFilter = "null"
  /\ folderWalker.options.arrayFilterFunction = "null"

\* at the end of a walk without filter, every reachable entry was produced,
\* once, and nothing else; an empty root gave the root alone
EveryReachableItemOnce ==
  (Ended /\ NoFilter) =>
    LET pushed == folderWalker.pushed
        fs == folderWalker.fs
        reachable == Reachable(fs, folderWalker.options)
    IN /\ {pushed[i] : i \in 1..Len(pushed)} = {ItemOf(fs, pathname) : pathname \in reachable}
       /\ Len(pushed) = Cardinality(reachable)
       /\ (fs[<<>>] = "dir" /\ Dirents(fs, <<>>) = {}) => pushed = <<asAbsoluteFolder(<<>>)>>

\* C24: on a finite tree, with no read failure and no filter, the walk
\* terminates after producing every file and folder reachable within the
\* depth limit exactly once, and then signals end; an empty root folder
\* yields exactly one item, the root. A walk either meets a failure (and is
\* destroyed) or ends, and an ended walk has produced exactly the reachable
\* entries.
C24_WalkTerminatesComplete ==
  /\ []EveryReachableItemOnce
  /\ <>(folderWalker.constructed = "threw" \/ Destroyed \/ Ended)
  /\ [][Ended => folderWalker' = folderWalker]_vars

\* a walk without filter has ended with depthLimit 0 on a tree holding a
\* file and a subfolder with an entry of its own, which the limit leaves out
C24_Witness ==
  /\ Ended
  /\ NoFilter
  /\ folderWalker.options.depthLimit = 0
  /\ folderWalker.fs[<<"a">>] = "file"
  /\ folderWalker.fs[<<"b", "a">>] = "file"
  /\ folderWalker.pushed =
       <<asAbsoluteFolder(<<>>), asAbsoluteFile(<<"a">>), asAbsoluteFolder(<<"b">>)>>

\* this step is the answer of stat for a file, without error
StatOfFile ==
  /\ folderWalker.constructed = "yes"
  /\ folderWalker.pc = "stat"
  /\ folderWalker.fs[folderWalker.pathname] = "file"
  /\ ~folderWalker'.destroyed

\* the popped entry is passed over: the loop of folderWalker_NextItem goes
\* on with the rest of the stack, nothing is pushed to the stream
PassedOver ==
  /\ folderWalker'.pc = "next"
  /\ folderWalker'.pushed = folderWalker.pushed
  /\ folderWalker'.absoluteResolvedPathnames = folderWalker.absoluteResolvedPathnames

\* the popped directory is emitted as a folder item: at once beyond the
\* depth limit, after the reading of its content otherwise
FolderEmitted ==
  \/ folderWalker'.pushed = Append(folderWalker.pushed, asAbsoluteFolder(folderWalker.pathname))
  \/ folderWalker'.pc = "readdir"

\* the answer of readdir, with or without error, pushes the folder
ReadFolderEmitted ==
  (folderWalker.constructed = "yes" /\ folderWalker.pc = "readdir") =>
    folderWalker'.pushed = Append(folderWalker.pushed, asAbsoluteFolder(folderWalker.pathname))

C25_FailurePropagates ==
  orchestrator.failures # {} => orchestrator.outcome # "resolved"

\* the only test file was delivered, the stream emitted 'end', then the
\* import failed: no 'error' was emitted and the promise has resolved
C25_Witness ==
  /\ orchestrator.failures = {1}
  /\ Len(Chained) = 1
  /\ orchestrator.endEmitted
  /\ ~orchestrator.errorEmitted
  /\ ~folderWalker.destroyed
  /\ orchestrator.outcome = "resolved"

\* a fatal failure has happened: a chained function failed or the stream
\* was destroyed with an error
FatalFailure ==
  \/ orchestrator.failures # {}
  \/ folderWalker.constructed = "yes" /\ folderWalker.destroyed

\* C26: after a fatal failure the whole test execution stops: no further
\* file is imported, run() is not called again and no further tested
\* function is invoked, the files already delivered included.
C26_FailureStopsExecution ==
  [][FatalFailure =>
       /\ orchestrator'.imports = orchestrator.imports
       /\ orchestrator'.runCalls = orchestrator.runCalls
       /\ Len(runs') = Len(runs)
       /\ \A r \in 1..Len(runs) : runs'[r].invoked = runs[r].invoked]_vars

\* two test files were delivered, the import of the first one failed, and
\* the second one was imported and run all the same: its tested function
\* was invoked
C26_Witness ==
  /\ orchestrator.failures = {1}
  /\ orchestrator.imports = {1, 2}
  /\ orchestrator.runCalls = {2}
  /\ Len(runs) = 1
  /\ runs[1].invoked # <<>>

\* the chained files whose import() rejected
ImportFailures == (orchestrator.failures \cap orchestrator.imports) \ orchestrator.runCalls

\* the records a run has touched: invoked, skipped or resolved with
TouchedBy(r) ==
  Range(runs[r].invoked) \cup Range(runs[r].skipped) \cup Range(runs[r].resolved)

\* C27: if the top-level code of a file throws during its import, no test of
\* that file runs: run() is called for the files whose import resolved only,
\* the records the file registered before throwing stay Initialized and are
\* never invoked, skipped nor part of the result of a run, and the
\* statistics count none of them.
C27_FailedImportRunsNothing ==
  /\ Len(runs) = Cardinality(orchestrator.runCalls)
  /\ orchestrator.runCalls \cap orchestrator.failures = {}
  /\ orchestrator.contributions \subseteq orchestrator.runCalls
  /\ \A id \in orchestrator.orphans :
       /\ recs[id].testExecutionStatus = INITIALIZED_EXECUTION
       /\ \A r \in 1..Len(runs) : id \notin TouchedBy(r)
  /\ orchestrator.globalTestExecutionStatistics.total + Cardinality(orchestrator.orphans)
       <= Len(recs)

\* the import of the first file failed after it had registered a record;
\* the second file was imported, registered a record of its own and its run
\* has resolved with that record alone, counted in the statistics
C27_Witness ==
  /\ ImportFailures = {1}
  /\ orchestrator.orphans = {1}
  /\ orchestrator.runCalls = {2}
  /\ orchestrator.contributions = {2}
  /\ runs[1].promise = "resolved"
  /\ runs[1].resolved = <<2>>
  /\ orchestrator.globalTestExecutionStatistics.total = 1

\* the entry at pathname is one executeTestCallsOfFolder is to import
ToImport(pathname) ==
  /\ folderWalker.fs[pathname] = "file"
  /\ orchestrator.extension[pathname[Len(pathname)]] \in {"js", "cjs", "mjs"}
  /\ orchestrator.options.onlyLastModified =>
       orchestrator.age[pathname[Len(pathname)]] < orchestrator.options.maxExecutionAge

\* every file chained or imported is one to import, and a promise that has
\* resolved has imported every chained file
OnlyTestFilesImported ==
  orchestrator.called =>
    /\ \A i \in 1..Len(Chained) : ToImport(Chained[i].pathname)
    /\ orchestrator.imports \subseteq 1..Len(Chained)
    /\ orchestrator.outcome = "resolved" => orchestrator.imports = 1..Len(Chained)

\* the stat of an enumerated entry has come back while the stream is alive:
\* the entry is chained for import exactly when it is one to import
ChainedWhenToImport ==
  (/\ orchestrator.called
   /\ folderWalker.constructed = "yes"
   /\ folderWalker.pc = "stat"
   /\ folderWalker'.pc # "stat"
   /\ ~folderWalker.destroyed
   /\ ~folderWalker'.destroyed) =>
    LET chained == SelectSeq(folderWalker.pushed, IsTestFile)
        chained2 == SelectSeq(folderWalker'.pushed, IsTestFile)
    IN IF ToImport(folderWalker.pathname)
         THEN chained2 = Append(chained, asAbsoluteFile(folderWalker.pathname))
         ELSE chained2 = chained

C30_NoAppendDuringRun ==
  /\ [][running => testCallExecutions' = testCallExecutions]_vars
  /\ [](\A r \in 1..Len(runs) : runs[r].invoked = <<>> /\ runs[r].skipped = <<>>)

\* the run of a session where nothing was registered before run() has
\* resolved after invoking the functions of two records, both registered
\* while it was in progress, and both are Done
C30_Witness ==
  /\ Len(runs) = 1
  /\ runs[1].promise = "resolved"
  /\ runs[1].invoked = <<1, 2>>
  /\ runs[1].resolved = <<1, 2>>
  /\ recs[1].testExecutionStatus = DONE_EXECUTION
  /\ recs[2].testExecutionStatus = DONE_EXECUTION

\* ---- the shape of a record
\* the fields of a record agree with its status, as the type
\* TestCallExecution has it
HasShapeOfStatus(x) ==
  CASE x.testExecutionStatus = DONE_EXECUTION ->
         x.obtained.present /\ x.error = NoError
    [] x.testExecutionStatus = CANCELLED_EXECUTION ->
         ~x.passed /\ x.obtained = NoResult /\ x.error # NoError
    [] OTHER ->
         ~x.passed /\ x.obtained = NoResult /\ x.error = NoError

\* the runs that invoked the function of record id or marked it Skipped
RunsTouching(id) ==
  {r \in 1..Len(runs) : id \in Range(runs[r].invoked) \cup Range(runs[r].skipped)}

\* C31: in every reachable state each record has the shape of its status:
\* Done implies obtained non-null and error null; Initialized and Skipped
\* imply passed = false, obtained = null and error = null; Cancelled implies
\* passed = false, obtained = null and error non-null.
C31_RecordShape ==
  \A id \in 1..Len(recs) : HasShapeOfStatus(recs[id])

\* C31 for the records at most one run has reached
C31_RecordShapeTouchedOnce ==
  \A id \in 1..Len(recs) :
    Cardinality(RunsTouching(id)) <= 1 => HasShapeOfStatus(recs[id])

\* a record two runs have reached, Done by the first one and Cancelled by
\* the second, carries both a result and an error
C31_Witness ==
  \E id \in 1..Len(recs) :
    /\ Cardinality(RunsTouching(id)) = 2
    /\ recs[id].testExecutionStatus = CANCELLED_EXECUTION
    /\ recs[id].obtained.present
    /\ recs[id].error # NoError

\* ---- the timer of a call
\* the invocations of the run, in order: invocation k is that of record
\* InvokedId(k), whose function did behaved[k]
Invocations == IF runs = <<>> THEN {} ELSE 1..Len(runs[1].invoked)
InvokedId(k) == runs[1].invoked[k]
\* the record was cancelled by its timer
TimedOut(id) ==
  /\ recs[id].testExecutionStatus = CANCELLED_EXECUTION
  /\ recs[id].error = TimeoutError

\* C32: a tested function that completes synchronously (it returns a value
\* that is no promise, or it throws) is never Cancelled because of a timeout,
\* whatever its timeout, even 0: its timer never fires and its record is
\* never Cancelled.
C32_SyncNeverTimesOut ==
  \A k \in Invocations :
    behaved[k].mode = "sync" =>
      /\ recs[InvokedId(k)].testExecutionStatus # CANCELLED_EXECUTION
      /\ \A e \in execs : e.rec = InvokedId(k) => ~e.hasTimedOut /\ e.timer # "fired"

\* a synchronous function registered with the timeout 0 is Done when the
\* run resolves
C32_Witness ==
  \E k \in Invocations :
    /\ behaved[k].mode = "sync"
    /\ recs[InvokedId(k)].testCall.timeoutDuration = 0
    /\ recs[InvokedId(k)].testExecutionStatus = DONE_EXECUTION
    /\ runs[1].promise = "resolved"

\* ---- synchronous exceptions and asynchronous failures
\* the status and the passed value of the one record when the promise of
\* its function is rejected with reason before the timer fires
RejectionVerdict(reason) ==
  LET compared == compareWithObtainedError(reason, recs[1])
      execution == IF compared.threw
                     THEN cancelTestCallExecution(compared.reason, compared.execution)
                     ELSE compared.execution
  IN <<execution.testExecutionStatus, execution.passed>>

\* the one call has been executed, its function failing with a reason, by a
\* throw or by a rejection, before the timer fired
FailedWithReason ==
  /\ runs # <<>>
  /\ runs[1].promise = "resolved"
  /\ behaved.outcome.settled = "rejected"
  /\ ~TimedOut(1)

\* C33: synchronous exceptions and asynchronous failures are treated alike:
\* for the same reason R and the same expectation, a function that throws R
\* and a function that returns a promise rejected with R leave records with
\* the same status and the same passed value.
C33_ThrowAsRejection ==
  FailedWithReason =>
    <<recs[1].testExecutionStatus, recs[1].passed>> = RejectionVerdict(behaved.outcome.reason)

\* C33 for the reasons that are instances of Error
C33_ThrowAsRejectionOfErrors ==
  FailedWithReason /\ IsErrorInstance(behaved.outcome.reason) =>
    <<recs[1].testExecutionStatus, recs[1].passed>> = RejectionVerdict(behaved.outcome.reason)

\* the string thrown passes throws(Error), the same string rejected with
\* fails it
C33_Witness ==
  /\ FailedWithReason
  /\ behaved.mode = "sync"
  /\ behaved.outcome.reason = Thing("string", "", "boom")
  /\ recs[1].expected.error = Thing("ctor", "Error", "")
  /\ recs[1].testExecutionStatus = DONE_EXECUTION
  /\ recs[1].passed
  /\ RejectionVerdict(behaved.outcome.reason) = <<DONE_EXECUTION, FALSE>>

\* null thrown makes the record Done, null rejected with makes it Cancelled
C33_WitnessStatus ==
  /\ FailedWithReason
  /\ behaved.mode = "sync"
  /\ behaved.outcome.reason = NullishReason
  /\ recs[1].testExecutionStatus = DONE_EXECUTION
  /\ RejectionVerdict(behaved.outcome.reason)[1] = CANCELLED_EXECUTION

\* ---- the duration of the timer
\* the duration the timer of record id is to be armed for
DurationOf(id) ==
  IF recs[id].testCall.timeoutDuration = NullDuration
    THEN DEFAULT_TIMEOUT_DURATION
    ELSE recs[id].testCall.timeoutDuration
\* a function behaving as b has settled before the duration has elapsed
SettlesBefore(b, duration) ==
  b.mode = "sync" \/ (b.mode = "async" /\ b.delay < duration)
\* a function behaving as b has not settled when the duration has elapsed,
\* nor does it settle at that very time
PendingAfter(b, duration) ==
  b.mode = "never" \/ (b.mode = "async" /\ b.delay > duration)
\* every timer is armed for the timeout of its call, for 200 without one
ArmedForItsDuration ==
  \A e \in execs : e.timeoutDuration = DurationOf(e.rec) /\ e.timerLeft <= DurationOf(e.rec)
\* no call that settles before its duration is cancelled by the timer, and
\* a call pending after its duration is finalized by the timer alone
CancelledOnlyPastDuration ==
  \A k \in Invocations :
    /\ SettlesBefore(behaved[k], DurationOf(InvokedId(k))) => ~TimedOut(InvokedId(k))
    /\ PendingAfter(behaved[k], DurationOf(InvokedId(k))) =>
         \/ recs[InvokedId(k)].testExecutionStatus = INITIALIZED_EXECUTION
         \/ TimedOut(InvokedId(k))
\* the run is over and every call pending after its duration is Cancelled
\* by the timer
CancelledPastDuration ==
  /\ runs # <<>>
  /\ runs[1].promise = "resolved"
  /\ \A k \in Invocations :
       PendingAfter(behaved[k], DurationOf(InvokedId(k))) => TimedOut(InvokedId(k))

NeverCalledWhileRunning ==
  /\ thrown # ResetWhileRunningError
  /\ thrown # AlreadyRunningError
  /\ \A r \in 1..Len(runs) : runs[r].promise # "rejected"
\* the chained function of file k has settled: it failed, or its run()
\* has resolved
SettledFile(k) ==
  \/ k \in orchestrator.failures
  \/ k \in orchestrator.runCalls /\ k <= orchestrator.position
\* a run is in progress only inside the chained function that called it,
\* every earlier run has resolved and the files are taken in the order of
\* their delivery
OneFileInProgress ==
  /\ running => orchestrator.pc = "run"
  /\ \A r \in 1..Len(runs) :
       runs[r].promise = "pending" => r = Len(runs) /\ orchestrator.pc = "run"
  /\ orchestrator.imports \subseteq 1..(orchestrator.position + 1)
  /\ orchestrator.position + 1 \in orchestrator.imports => orchestrator.pc # "idle"
  /\ \A k \in 1..orchestrator.position : SettledFile(k)
\* reset() and import() of a file begin when every file before it has
\* settled and no run is in progress; so does its run()
StartsAfterThePrevious ==
  /\ orchestrator'.imports # orchestrator.imports =>
       /\ orchestrator'.imports = orchestrator.imports \cup {orchestrator.position + 1}
       /\ orchestrator.pc = "idle" /\ ~running
       /\ \A k \in 1..orchestrator.position : SettledFile(k)
  /\ orchestrator'.runCalls # orchestrator.runCalls =>
       /\ orchestrator'.runCalls = orchestrator.runCalls \cup {orchestrator.position + 1}
       /\ orchestrator.position + 1 \in orchestrator.imports
       /\ orchestrator.pc = "import" /\ ~running
  /\ Len(runs') > Len(runs) => ~running /\ orchestrator.pc = "import"

\* C35: executeTestCallsOfFolder processes the files strictly one at a time
\* in the order of their enumeration: reset, import and run of a file begin
\* only after the run of the file before it has resolved or failed, reset()
\* and run() are never called while a run is in progress, and the errors of
\* a reset() or run() during a run never arise.
C35_OneFileAtATime ==
  /\ [](NeverCalledWhileRunning /\ OneFileInProgress)
  /\ [][StartsAfterThePrevious]_vars

\* two test files imported and run one after the other, the promise
\* resolved
C35_Witness ==
  /\ orchestrator.called
  /\ orchestrator.outcome = "resolved"
  /\ Len(Chained) = 2
  /\ orchestrator.runCalls = {1, 2}
  /\ Len(runs) = 2
  /\ \A r \in 1..2 : runs[r].promise = "resolved" /\ runs[r].invoked # <<>>

\* ---- the running flag
\* a run() was accepted and has not resolved yet
RunInProgress == \E r \in 1..Len(runs) : runs[r].promise = "pending"
\* the flag is up exactly while an accepted run() has not resolved; when it
\* is down reset() and run() let the call through
FlagFollowsTheRun ==
  /\ running <=> RunInProgress
  /\ ~RunInProgress => ResetAllowed /\ RunAllowed
\* the step that resolves a run() lowers the flag, whatever made it resolve;
\* a run() called when no run is in progress is accepted and a reset()
\* called then does not throw
ResolutionLowersTheFlag ==
  /\ \A r \in 1..Len(runs) :
       runs[r].promise = "pending" /\ runs'[r].promise = "resolved" => ~running'
  /\ ~RunInProgress /\ Len(runs') > Len(runs) =>
       runs'[Len(runs')].promise = "pending" /\ running'
  /\ ~RunInProgress /\ thrown # ResetWhileRunningError => thrown' # ResetWhileRunningError

\* C36: whenever a run() resolves, by normal completion, by a timeout or by
\* an internal defect, the running flag is false again, so that a following
\* reset() succeeds and a following run() is accepted; the flag is true
\* exactly between the acceptance of a run() and its resolution.
C36_RunningFlag ==
  /\ []FlagFollowsTheRun
  /\ [][ResolutionLowersTheFlag]_vars

\* a run resolved by a timeout, the list reset and a second run() accepted
C36_Witness ==
  /\ Len(runs) = 2
  /\ runs[1].promise = "resolved"
  /\ \E i \in 1..Len(runs[1].resolved) : TimedOut(runs[1].resolved[i])
  /\ runs[1].result.detached
  /\ runs[2].promise = "pending"
  /\ running

\* a run resolved by a finalization that threw, the flag down
C36_WitnessDefect ==
  /\ Len(runs) = 1
  /\ runs[1].promise = "resolved"
  /\ \E i \in 1..Len(runs[1].resolved) :
       /\ recs[runs[1].resolved[i]].testExecutionStatus = CANCELLED_EXECUTION
       /\ ~TimedOut(runs[1].resolved[i])
  /\ ~running

\* ---- one item and one probe at a time
\* at most one stat or readdir is awaited, the one the pending _read waits
\* for
OneProbeInFlight ==
  folderWalker.constructed = "yes" =>
    /\ folderWalker.probes \in {0, 1}
    /\ folderWalker.probes = 1 <=> folderWalker.pc \in {"stat", "readdir"}
\* a step pushes at most one item, and the push ends the pending _read
PullDeliversOne ==
  folderWalker.constructed = "yes" /\ folderWalker'.pushed # folderWalker.pushed =>
    /\ Len(folderWalker'.pushed) = Len(folderWalker.pushed) + 1
    /\ folderWalker.pc \in {"stat", "readdir"}
    /\ folderWalker'.pc = "idle"
    /\ folderWalker'.probes = 0
\* the pathname a stat is asked for is the one popped from the stack in that
\* step; the children of a folder are appended to the stack by the callback
\* of its readdir, which asks for no probe and ends the _read: they wait for
\* a later _read to pop them
StackedNotProbed ==
  folderWalker.constructed = "yes" =>
    LET stack == folderWalker.absoluteResolvedPathnames
        stack_ == folderWalker'.absoluteResolvedPathnames
    IN /\ folderWalker'.probes > folderWalker.probes =>
            /\ folderWalker.pc = "next" /\ folderWalker'.pc = "stat"
            /\ stack # <<>>
            /\ folderWalker'.pathname = stack[Len(stack)]
            /\ stack_ = SubSeq(stack, 1, Len(stack) - 1)
       /\ folderWalker'.pc = "readdir" /\ folderWalker.pc # "readdir" =>
            /\ folderWalker.pc = "stat"
            /\ folderWalker'.pathname = folderWalker.pathname
            /\ folderWalker'.probes = 1
            /\ stack_ = stack
       /\ Len(stack_) > Len(stack) =>
            /\ folderWalker.pc = "readdir" /\ folderWalker'.pc = "idle"
            /\ folderWalker'.probes = 0
            /\ SubSeq(stack_, 1, Len(stack)) = stack

\* C37: for every tree and every option combination each pull delivers at
\* most one item, the walker has at most one filesystem probe (stat or
\* readdir) in flight at any time, and the children of a folder are only
\* stacked, not probed, until a later pull pops them.
C37_OneProbeAtATime ==
  /\ []OneProbeInFlight
  /\ [][PullDeliversOne /\ StackedNotProbed]_vars

\* the root has been delivered, its two children are stacked and no probe
\* is in flight
C37_Witness ==
  /\ folderWalker.constructed = "yes"
  /\ Len(folderWalker.pushed) = 1
  /\ Len(folderWalker.absoluteResolvedPathnames) = 2
  /\ folderWalker.pc = "idle"
  /\ folderWalker.probes = 0

\* ---- the statistics of a folder
\* the run() called for the chained file k, when one was called
RunOfFile(k) == Cardinality({j \in orchestrator.runCalls : j <= k})
\* the import and the run of the chained file k are over
Completed(k) ==
  /\ k \in orchestrator.runCalls
  /\ k \notin orchestrator.failures
  /\ runs[RunOfFile(k)].promise = "resolved"
  /\ k <= orchestrator.position
\* the statistics of the chained file k: those of the records its run()
\* resolved with, nothing as long as it has not completed
StatisticsOfFile(k) ==
  IF Completed(k)
    THEN makeTestExecutionStatistics(Records(runs[RunOfFile(k)].resolved))
    ELSE newTestExecutionStatistics
\* the sum of the statistics of the chained files 1 to k
RECURSIVE SumOfStatistics(_)
SumOfStatistics(k) ==
  IF k = 0
    THEN newTestExecutionStatistics
    ELSE addTestExecutionStatistics(SumOfStatistics(k - 1), StatisticsOfFile(k))
\* the global counters add up and are the sum over the files settled so far
GlobalStatisticsAddUp ==
  LET global == orchestrator.globalTestExecutionStatistics
  IN /\ global.ok + global.ko + global.skipped = global.total
     /\ orchestrator.called => global = SumOfStatistics(orchestrator.position)
\* no step lowers a global counter
GlobalStatisticsGrow ==
  LET global == orchestrator.globalTestExecutionStatistics
      global_ == orchestrator'.globalTestExecutionStatistics
  IN /\ global_.ok >= global.ok /\ global_.ko >= global.ko
     /\ global_.skipped >= global.skipped /\ global_.total >= global.total
     /\ global_ # global =>
          /\ orchestrator.position + 1 \notin orchestrator.contributions
          /\ orchestrator'.contributions =
               orchestrator.contributions \cup {orchestrator.position + 1}
\* the promise has resolved: no chained function is left
ResolvedAfterEveryFile ==
  orchestrator.outcome = "resolved" =>
    /\ orchestrator.pc = "idle"
    /\ orchestrator.position = Len(Chained)

\* C38: when executeTestCallsOfFolder resolves, every matching file the
\* stream delivered has finished its import and its run, and the returned
\* statistics are the sum of the statistics of those files, each counted
\* once; the global counters never decrease and satisfy
\* ok + ko + skipped = total.
C38_StatisticsOfEveryFile ==
  /\ [](GlobalStatisticsAddUp /\ ResolvedAfterEveryFile)
  /\ [](orchestrator.outcome = "resolved" => \A k \in 1..Len(Chained) : Completed(k))
  /\ [][GlobalStatisticsGrow]_vars

\* C38 with the files whose function failed left aside: when the promise
\* resolves every chained function has settled and the statistics are the
\* sum over the completed files
C38_StatisticsOfCompletedFiles ==
  /\ [](GlobalStatisticsAddUp /\ ResolvedAfterEveryFile)
  /\ [](orchestrator.outcome = "resolved" =>
          \A k \in 1..Len(Chained) : Completed(k) \/ k \in orchestrator.failures)
  /\ [][GlobalStatisticsGrow]_vars

\* the promise has resolved with empty statistics although the one test
\* file registered a call: its import failed after 'end', no run was made
C38_Witness ==
  /\ orchestrator.outcome = "resolved"
  /\ Len(Chained) = 1
  /\ orchestrator.failures = {1}
  /\ orchestrator.runCalls = {}
  /\ orchestrator.orphans # {}
  /\ orchestrator.globalTestExecutionStatistics = newTestExecutionStatistics

\* two files completed, both counted in the statistics the promise
\* resolved with
C38_WitnessSum ==
  /\ orchestrator.outcome = "resolved"
  /\ orchestrator.contributions = {1, 2}
  /\ Completed(1) /\ Completed(2)
  /\ orchestrator.globalTestExecutionStatistics.total = 2
  /\ StatisticsOfFile(1).total = 1

====
